---- MODULE Spec2Model ----
(***************************************************************************)
(* Equilibrium pooling (rmgpy/tools/equilibrium_pooling.py).               *)
(*                                                                         *)
(* search_priority builds the list of direct connections, pooling_time_    *)
(* cycle sweeps equilibrium_pooling over the thresholds 10^k and records   *)
(* the exponent k in the pooling-time matrix, and the mechanism file is    *)
(* written last.                                                           *)
(*                                                                         *)
(* Numbers.  Concentrations are integers.  Time constants and thresholds   *)
(* are fixed-point: the integer v stands for v / 10^Decimals, so that      *)
(* floor(log10), ceil(log10) and the comparison with 10^k are exact.       *)
(* Python's None is the empty tuple and a value v is the tuple <<v>>; NaN  *)
(* in the matrix is the empty tuple as well.                               *)
(***************************************************************************)
EXTENDS Integers, Sequences, FiniteSets, TLC

NumSpecies == 3
MaxConnections == 3
Decimals == 1

Species == 0 .. (NumSpecies - 1)

None == << >>
Some(v) == << v >>
Value(opt) == opt[1]

Min2(a, b) == IF a <= b THEN a ELSE b
Max2(a, b) == IF a >= b THEN a ELSE b
Abs(x) == IF x < 0 THEN 0 - x ELSE x

RECURSIVE Pow10(_)
Pow10(k) == IF k <= 0 THEN 1 ELSE 10 * Pow10(k - 1)

(* floor(log10(v)) of an integer v >= 1 *)
RECURSIVE IntLog10(_)
IntLog10(v) == IF v < 10 THEN 0 ELSE 1 + IntLog10(v \div 10)

(* math.floor(math.log10(x)) and math.ceil(math.log10(x)), x = v/10^Decimals *)
FloorLog10(v) == IntLog10(v) - Decimals
CeilLog10(v) ==
    IF Pow10(IntLog10(v)) = v THEN IntLog10(v) - Decimals
    ELSE IntLog10(v) + 1 - Decimals

(* 10**log10_time in fixed-point units; every scanned exponent is >= -Decimals *)
Threshold(log10_time) == Pow10(log10_time + Decimals)

VARIABLES
    pc,                       \* where search_priority stands
    error,                    \* the exception that left search_priority, if any
    core_concentrations,      \* concentration of every core species
    direct_connections_list,  \* the evaluated direct connections
    cursor,                   \* rank of the last connection input consumed
    log10_minimum,            \* locals of pooling_time_cycle
    log10_maximum,
    remaining,                \* exponents the scan loop has still to visit
    pooling_times,            \* the pooling-time matrix
    calls,                    \* the equilibrium_pooling calls made so far, in order
    first_run,                \* what an earlier pooling_time_cycle call returned
    possible_connections,     \* the candidate connections of search_priority
    removed_connections,      \* the candidates the deduplication removed
    conn0,                    \* position of the loop over direct_connections_list
    conn1,                    \* position of the loop over possible_connections
    self,                     \* the Connection under construction
    library,                  \* a library of rmgpy/data/surface.py and its entries
    result                    \* what the last library call returned

vars == << pc, error, core_concentrations, direct_connections_list, cursor,
           log10_minimum, log10_maximum, remaining, pooling_times, calls,
           first_run, possible_connections, removed_connections, conn0, conn1,
           self, library, result >>

(* the state of search_priority and of pooling_time_cycle *)
search_vars == << core_concentrations, direct_connections_list, cursor, log10_minimum,
                  log10_maximum, remaining, pooling_times, calls, first_run,
                  possible_connections, removed_connections, conn0, conn1 >>

(* the state of the deduplication step *)
dedup_vars == << possible_connections, removed_connections, conn0, conn1 >>

(* the state of the library calls *)
library_vars == << library, result >>

(***************************************************************************)
(* Connection.__init__: the fields the pool builder reads.  time_constant  *)
(* and equil_flux are the results of the numerical evaluation and are      *)
(* taken as given here.                                                    *)
(***************************************************************************)
Connection(concentrations, reactant_index, product_index, coreactant_index, coproduct_index, time_constant, equil_flux) ==
    LET reactant_conc == concentrations[reactant_index]
        product_conc == concentrations[product_index]
        species_count ==
            IF coreactant_index # None /\ coproduct_index # None THEN << 2, 2 >>
            ELSE IF coproduct_index # None THEN << 1, 2 >>
            ELSE IF coreactant_index # None THEN << 2, 1 >>
            ELSE << 1, 1 >>
        coreactant_conc ==
            IF species_count[1] = 2
            THEN Some(concentrations[Value(coreactant_index)]) ELSE None
        coproduct_conc ==
            IF species_count[2] = 2
            THEN Some(concentrations[Value(coproduct_index)]) ELSE None
    IN  [ reactant |-> reactant_index,
          reactant_conc |-> reactant_conc,
          product |-> product_index,
          product_conc |-> product_conc,
          species_count |-> species_count,
          coreactant |-> IF species_count[1] = 2 THEN coreactant_index ELSE None,
          coreactant_conc |-> coreactant_conc,
          min_reactant_conc |->
              IF species_count[1] = 2
              THEN Min2(Value(coreactant_conc), reactant_conc) ELSE reactant_conc,
          coproduct |-> IF species_count[2] = 2 THEN coproduct_index ELSE None,
          coproduct_conc |-> coproduct_conc,
          min_product_conc |->
              IF species_count[2] = 2
              THEN Min2(Value(coproduct_conc), product_conc) ELSE product_conc,
          time_constant |-> time_constant,
          equil_flux |-> equil_flux ]

(***************************************************************************)
(* equilibrium_pooling, step 1: classification of one connection.          *)
(* 0.1*x is compared exactly: a > 0.1*b is 10*a > b.                       *)
(***************************************************************************)
(* the comparison with the threshold turned round *)
IsFast_Reversed(conn, t_characteristic) ==
    IF conn.time_constant = None THEN FALSE
    ELSE IF conn.species_count = << 2, 2 >>
    THEN IF \/ Value(conn.coproduct_conc) < conn.product_conc
            \/ Value(conn.coreactant_conc) < conn.reactant_conc
         THEN FALSE
         ELSE Value(conn.time_constant) > t_characteristic
    ELSE Value(conn.time_constant) > t_characteristic

(* the (2,2) exclusion with its two comparisons inverted *)
IsFast_InvertedExclusion(conn, t_characteristic) ==
    IF conn.time_constant = None THEN FALSE
    ELSE IF conn.species_count = << 2, 2 >>
    THEN IF \/ Value(conn.coproduct_conc) >= conn.product_conc
            \/ Value(conn.coreactant_conc) >= conn.reactant_conc
         THEN FALSE
         ELSE Value(conn.time_constant) < t_characteristic
    ELSE Value(conn.time_constant) < t_characteristic

IsFast(conn, t_characteristic) ==
    IF conn.time_constant = None THEN FALSE
    ELSE IF conn.species_count = << 2, 2 >>
    THEN IF \/ Value(conn.coproduct_conc) < conn.product_conc
            \/ Value(conn.coreactant_conc) < conn.reactant_conc
         THEN FALSE
         ELSE Value(conn.time_constant) < t_characteristic
    ELSE Value(conn.time_constant) < t_characteristic

(* the flux test alone, the connection fast or not *)
IsStrong_WithoutFast(conn, t_characteristic) ==
    IF conn.species_count = << 2, 2 >>
    THEN 10 * Abs(conn.equil_flux) > conn.min_product_conc
    ELSE 10 * conn.min_reactant_conc > conn.min_product_conc

IsStrong(conn, t_characteristic) ==
    /\ IsFast(conn, t_characteristic)
    /\ IF conn.species_count = << 2, 2 >>
       THEN 10 * Abs(conn.equil_flux) > conn.min_product_conc
       ELSE 10 * conn.min_reactant_conc > conn.min_product_conc

FastConnections(connections, t_characteristic) ==
    [ rct_idx \in Species |->
        { connections[c].product :
            c \in { d \in DOMAIN connections :
                      /\ connections[d].reactant = rct_idx
                      /\ IsFast(connections[d], t_characteristic) } } ]

StrongConnections(connections, t_characteristic) ==
    [ rct_idx \in Species |->
        { connections[c].product :
            c \in { d \in DOMAIN connections :
                      /\ connections[d].reactant = rct_idx
                      /\ IsStrong(connections[d], t_characteristic) } } ]

(***************************************************************************)
(* Step 2: reachability.  The sets are updated in place, species after     *)
(* species, len(core_species) times over.                                  *)
(***************************************************************************)
UpdatePass(pass, successors, rct_idx) ==
    [ pass EXCEPT ![rct_idx] =
        pass[rct_idx] \cup UNION { pass[prd_idx] : prd_idx \in successors[rct_idx] } ]

RECURSIVE SweepSpecies(_, _, _)
SweepSpecies(pass, successors, rct_idx) ==
    IF rct_idx >= NumSpecies THEN pass
    ELSE SweepSpecies(UpdatePass(pass, successors, rct_idx), successors, rct_idx + 1)

RECURSIVE PassRounds(_, _, _)
PassRounds(pass, successors, rounds) ==
    IF rounds = 0 THEN pass
    ELSE PassRounds(SweepSpecies(pass, successors, 0), successors, rounds - 1)

(* the passes start from sets left full instead of from { rct_idx } *)
ReachablePass_NotFresh(successors) ==
    PassRounds([ rct_idx \in Species |-> Species ], successors, NumSpecies)

(* a single round of the sweep *)
ReachablePass_OneRound(successors) ==
    PassRounds([ rct_idx \in Species |-> { rct_idx } ], successors, 1)

ReachablePass(successors) ==
    PassRounds([ rct_idx \in Species |-> { rct_idx } ], successors, NumSpecies)

(***************************************************************************)
(* Step 3: pool groups, broken species and the purge.                      *)
(***************************************************************************)
PoolGroupsBeforePurge(forward_pass) ==
    [ rct_idx \in Species |->
        { prd_idx \in forward_pass[rct_idx] : rct_idx \in forward_pass[prd_idx] } ]

(* the species reached one way is marked, not the one that reaches it *)
BrokenPools_MarksTarget(forward_pass, strong_pass) ==
    { prd_idx \in Species :
        \E rct_idx \in Species :
            /\ prd_idx \in forward_pass[rct_idx]
            /\ rct_idx \notin forward_pass[prd_idx] }

(* only the strongly reached species is marked, not the species that
   reaches another one way *)
BrokenPools_OnlyStrong(forward_pass, strong_pass) ==
    { prd_idx \in Species :
        \E rct_idx \in Species :
            /\ prd_idx \in forward_pass[rct_idx]
            /\ rct_idx \notin forward_pass[prd_idx]
            /\ prd_idx \in strong_pass[rct_idx] }

BrokenPools(forward_pass, strong_pass) ==
    { rct_idx \in Species :
        \E prd_idx \in forward_pass[rct_idx] : rct_idx \notin forward_pass[prd_idx] }
    \cup
    { prd_idx \in Species :
        \E rct_idx \in Species :
            /\ prd_idx \in forward_pass[rct_idx]
            /\ rct_idx \notin forward_pass[prd_idx]
            /\ prd_idx \in strong_pass[rct_idx] }

(* only the broken species itself loses its group *)
PurgeOne_OnlyBroken(pool_groups, rct_idx) ==
    [ prd_idx \in Species |->
        IF prd_idx = rct_idx THEN {} ELSE pool_groups[prd_idx] ]

(* one broken species empties every group *)
PurgeOne_ClearsAll(pool_groups, rct_idx) == [ prd_idx \in Species |-> {} ]

(* the broken species keeps its own group, the other members lose theirs *)
PurgeOne_KeepsOwn(pool_groups, rct_idx) ==
    [ prd_idx \in Species |->
        IF prd_idx \in pool_groups[rct_idx] /\ prd_idx # rct_idx
        THEN {} ELSE pool_groups[prd_idx] ]

(* one pass of the outer purge loop: every member of the group rct_idx has
   at that moment gets an empty group *)
PurgeOne(pool_groups, rct_idx) ==
    [ prd_idx \in Species |->
        IF prd_idx \in pool_groups[rct_idx] THEN {} ELSE pool_groups[prd_idx] ]

(* the purge loop, visiting the broken species in the order given *)
RECURSIVE PurgeBroken(_, _)
PurgeBroken(pool_groups, order) ==
    IF order = << >> THEN pool_groups
    ELSE PurgeBroken(PurgeOne(pool_groups, Head(order)), Tail(order))

(* the orders in which a set can be iterated *)
RECURSIVE IterationOrders(_)
IterationOrders(S) ==
    IF S = {} THEN { << >> }
    ELSE UNION { { << x >> \o rest : rest \in IterationOrders(S \ { x }) } : x \in S }

(* the call up to the purge loop *)
PoolingBeforePurge(connections, t_characteristic) ==
    LET fast_connections == FastConnections(connections, t_characteristic)
        strong_connections == StrongConnections(connections, t_characteristic)
        forward_pass == ReachablePass(fast_connections)
        strong_pass == ReachablePass(strong_connections)
    IN  [ t_characteristic |-> t_characteristic,
          fast_connections |-> fast_connections,
          strong_connections |-> strong_connections,
          forward_pass |-> forward_pass,
          strong_pass |-> strong_pass,
          broken_pools |-> BrokenPools(forward_pass, strong_pass),
          pool_groups |-> PoolGroupsBeforePurge(forward_pass) ]

(* the whole call; order is the order in which the purge loop iterates
   over the set broken_pools *)
(* the purge loop left out *)
PurgedCall_NoPurge(before, order) == before

PurgedCall(before, order) ==
    [ before EXCEPT !.pool_groups = PurgeBroken(before.pool_groups, order) ]

EquilibriumPooling(connections, t_characteristic, order) ==
    PurgedCall(PoolingBeforePurge(connections, t_characteristic), order)

(***************************************************************************)
(* pooling_time_cycle: the helpers of the scan.                            *)
(***************************************************************************)
RECURSIVE InsertSorted(_, _)
InsertSorted(sorted, v) ==
    IF sorted = << >> THEN << v >>
    ELSE IF v <= Head(sorted) THEN << v >> \o sorted
    ELSE << Head(sorted) >> \o InsertSorted(Tail(sorted), v)

(* the time constants that are not None, sorted ascending *)
RECURSIVE TimeConstants(_)
TimeConstants(connections) ==
    IF connections = << >> THEN << >>
    ELSE IF Head(connections).time_constant = None
    THEN TimeConstants(Tail(connections))
    ELSE InsertSorted(TimeConstants(Tail(connections)),
                      Value(Head(connections).time_constant))

IsPositive(v) == v > 0
PositiveTimeConstants(connections) == SelectSeq(TimeConstants(connections), IsPositive)

Log10Minimum(connections) == FloorLog10(PositiveTimeConstants(connections)[1])
Log10Maximum(connections) ==
    CeilLog10(TimeConstants(connections)[Len(TimeConstants(connections))]) + 1

(* the range with its upper end included *)
ScanExponents_Inclusive(lo, hi) ==
    IF hi < lo THEN << >> ELSE [ i \in 1 .. (hi - lo + 1) |-> hi - i + 1 ]

(* list(range(log10_minimum, log10_maximum))[::-1] *)
ScanExponents(lo, hi) ==
    IF hi <= lo THEN << >> ELSE [ i \in 1 .. (hi - lo) |-> hi - i ]

NaNMatrix == [ i \in Species |-> [ j \in Species |-> None ] ]

(* a cell is written only while it is still NaN *)
RecordPools_FirstWins(matrix, pool_groups, log10_time) ==
    [ i \in Species |->
        [ j \in Species |->
            IF j \in pool_groups[i] /\ matrix[i][j] = None
            THEN Some(log10_time) ELSE matrix[i][j] ] ]

(* only the cells on and above the diagonal are written *)
RecordPools_UpperTriangle(matrix, pool_groups, log10_time) ==
    [ i \in Species |->
        [ j \in Species |->
            IF j \in pool_groups[i] /\ j >= i
            THEN Some(log10_time) ELSE matrix[i][j] ] ]

(* for i, grp in enumerate(pool_groups): for j in grp: pooling_times[i,j] = k *)
RecordPools(matrix, pool_groups, log10_time) ==
    [ i \in Species |->
        [ j \in Species |->
            IF j \in pool_groups[i] THEN Some(log10_time) ELSE matrix[i][j] ] ]

(***************************************************************************)
(* The inputs.  A connection input names the two species and a kind; the   *)
(* kind fixes the co-species and the outcome of the numerical evaluation.  *)
(* The build loop consumes the inputs in rank order.                       *)
(***************************************************************************)
InitialConcentrations == [ i \in Species |-> IF i % 2 = 0 THEN 1 ELSE 20 ]

ConnectionKinds ==
    << [ coreactant |-> None, coproduct |-> None,
         time_constant |-> None, equil_flux |-> 1 ],
       [ coreactant |-> None, coproduct |-> Some(1),
         time_constant |-> Some(0), equil_flux |-> 0 ],
       [ coreactant |-> Some(1), coproduct |-> None,
         time_constant |-> Some(5), equil_flux |-> 1 ],
       [ coreactant |-> Some(0), coproduct |-> Some(1),
         time_constant |-> Some(30), equil_flux |-> 0 - 1 ],
       [ coreactant |-> None, coproduct |-> None,
         time_constant |-> Some(10), equil_flux |-> 1 ] >>

(* the species next to i in index order, cyclically: with three species,
   every other species *)
Neighbours(i) == { (i + 1) % NumSpecies, (i + NumSpecies - 1) % NumSpecies } \ { i }

ConnectionInputs ==
    { inp \in [ reactant : Species, product : Species, kind : DOMAIN ConnectionKinds ] :
        inp.product \in Neighbours(inp.reactant) }

Rank(inp) ==
    (inp.reactant * NumSpecies + inp.product) * Len(ConnectionKinds) + inp.kind

Evaluate(concentrations, inp) ==
    Connection(concentrations, inp.reactant, inp.product,
               ConnectionKinds[inp.kind].coreactant, ConnectionKinds[inp.kind].coproduct,
               ConnectionKinds[inp.kind].time_constant, ConnectionKinds[inp.kind].equil_flux)

(***************************************************************************)
(* search_priority.                                                        *)
(***************************************************************************)
Init ==
    /\ pc = "build"
    /\ error = "none"
    /\ core_concentrations = InitialConcentrations
    /\ direct_connections_list = << >>
    /\ cursor = 0
    /\ log10_minimum = None
    /\ log10_maximum = None
    /\ remaining = << >>
    /\ pooling_times = None
    /\ calls = << >>
    /\ first_run = None
    /\ possible_connections = << >>
    /\ removed_connections = {}
    /\ conn0 = 0
    /\ conn1 = 0
    /\ self = None
    /\ library = None
    /\ result = None

(* direct_connections_list.append(Connection(...)) *)
AddConnection(inp) ==
    /\ pc = "build"
    /\ Len(direct_connections_list) < MaxConnections
    /\ Rank(inp) > cursor
    /\ direct_connections_list' =
           Append(direct_connections_list, Evaluate(core_concentrations, inp))
    /\ cursor' = Rank(inp)
    /\ UNCHANGED << pc, error, core_concentrations, log10_minimum, log10_maximum,
                    remaining, pooling_times, calls, first_run, self, library_vars, dedup_vars >>

(* Connection(...) raises: nothing in search_priority catches it *)
ConnectionRaises ==
    /\ pc = "build"
    /\ Len(direct_connections_list) < MaxConnections
    /\ pc' = "raised"
    /\ error' = "bad equil"
    /\ UNCHANGED << search_vars, self, library_vars >>

(* pooling_time_cycle up to the scan loop *)
StartCycle ==
    /\ pc = "build"
    /\ pooling_times' = NaNMatrix
    /\ IF PositiveTimeConstants(direct_connections_list) = << >>
       THEN /\ pc' = "raised"
            /\ error' = "IndexError"
            /\ UNCHANGED << log10_minimum, log10_maximum, remaining >>
       ELSE /\ pc' = "scan"
            /\ log10_minimum' = Some(Log10Minimum(direct_connections_list))
            /\ log10_maximum' = Some(Log10Maximum(direct_connections_list))
            /\ remaining' = ScanExponents(Log10Minimum(direct_connections_list),
                                          Log10Maximum(direct_connections_list))
            /\ UNCHANGED error
    /\ UNCHANGED << core_concentrations, direct_connections_list, cursor, calls,
                    first_run, self, library_vars, dedup_vars >>

(* one iteration of the scan loop *)
ScanStep ==
    /\ pc = "scan"
    /\ remaining # << >>
    /\ \E before \in { PoolingBeforePurge(direct_connections_list,
                                          Threshold(Head(remaining))) } :
         \E order \in IterationOrders(before.broken_pools) :
           \E call \in { PurgedCall(before, order) } :
             /\ pooling_times' =
                    RecordPools(pooling_times, call.pool_groups, Head(remaining))
             /\ calls' = Append(calls, [ log10_time |-> Head(remaining),
                                         result |-> call ])
    /\ remaining' = Tail(remaining)
    /\ UNCHANGED << pc, error, core_concentrations, direct_connections_list, cursor,
                    log10_minimum, log10_maximum, first_run, self, library_vars, dedup_vars >>

(* pooling_time_cycle returns the matrix; save_chemkin_file writes the mechanism *)
FinishSearch ==
    /\ pc = "scan"
    /\ remaining = << >>
    /\ pc' = "done"
    /\ UNCHANGED << error, search_vars, self, library_vars >>

Next ==
    \/ \E inp \in ConnectionInputs : AddConnection(inp)
    \/ ConnectionRaises
    \/ StartCycle
    \/ ScanStep
    \/ FinishSearch

Spec == Init /\ [][Next]_vars

(***************************************************************************)
(* equilibrium_pooling from its reachability step on, for every outcome of *)
(* the classification: any set of fast connections between the species,   *)
(* the strong ones being those that lead into a chosen set of species.     *)
(***************************************************************************)
(* lines 226-264 for the successor sets the classification produced *)
PoolingFromSuccessors(fast_connections, strong_connections) ==
    LET forward_pass == ReachablePass(fast_connections)
        strong_pass == ReachablePass(strong_connections)
    IN  [ t_characteristic |-> 1,
          fast_connections |-> fast_connections,
          strong_connections |-> strong_connections,
          forward_pass |-> forward_pass,
          strong_pass |-> strong_pass,
          broken_pools |-> BrokenPools(forward_pass, strong_pass),
          pool_groups |-> PoolGroupsBeforePurge(forward_pass) ]

PoolingInit ==
    /\ pc = "equilibrium_pooling"
    /\ error = "none"
    /\ core_concentrations = InitialConcentrations
    /\ direct_connections_list = << >>
    /\ cursor = 0
    /\ log10_minimum = None
    /\ log10_maximum = None
    /\ remaining = << >>
    /\ pooling_times = None
    /\ calls = << >>
    /\ first_run = None
    /\ possible_connections = << >>
    /\ removed_connections = {}
    /\ conn0 = 0
    /\ conn1 = 0
    /\ self = None
    /\ library = None
    /\ result = None

(* one call of equilibrium_pooling *)
PoolingCall ==
    /\ pc = "equilibrium_pooling"
    /\ \E fast_connections \in [ Species -> SUBSET Species ] :
         \E strong_targets \in SUBSET Species :
           \E before \in { PoolingFromSuccessors(
                               fast_connections,
                               [ rct_idx \in Species |->
                                   fast_connections[rct_idx] \cap strong_targets ]) } :
             \E order \in IterationOrders(before.broken_pools) :
               calls' = << [ log10_time |-> 0, result |-> PurgedCall(before, order) ] >>
    /\ pc' = "returned"
    /\ UNCHANGED << error, core_concentrations, direct_connections_list, cursor,
                    log10_minimum, log10_maximum, remaining, pooling_times,
                    first_run, self, library_vars, dedup_vars >>

PoolingNext == PoolingCall

PoolingSpec == PoolingInit /\ [][PoolingNext]_vars

(***************************************************************************)
(* pooling_time_cycle called a second time with the same connection list   *)
(* and species list.                                                       *)
(***************************************************************************)
(* the second call, up to its scan loop: the first call's matrix is kept
   for comparison, and the call starts as lines 270-284 start every call *)
RunAgain ==
    /\ pc = "done"
    /\ first_run = None
    /\ first_run' = Some([ pooling_times |-> pooling_times,
                           direct_connections_list |-> direct_connections_list ])
    /\ pooling_times' = NaNMatrix
    /\ calls' = << >>
    /\ IF PositiveTimeConstants(direct_connections_list) = << >>
       THEN /\ pc' = "raised"
            /\ error' = "IndexError"
            /\ UNCHANGED << log10_minimum, log10_maximum, remaining >>
       ELSE /\ pc' = "scan"
            /\ log10_minimum' = Some(Log10Minimum(direct_connections_list))
            /\ log10_maximum' = Some(Log10Maximum(direct_connections_list))
            /\ remaining' = ScanExponents(Log10Minimum(direct_connections_list),
                                          Log10Maximum(direct_connections_list))
            /\ UNCHANGED error
    /\ UNCHANGED << core_concentrations, direct_connections_list, cursor, self,
                    library_vars, dedup_vars >>

RerunNext ==
    \/ \E inp \in ConnectionInputs : AddConnection(inp)
    \/ StartCycle
    \/ ScanStep
    \/ FinishSearch
    \/ RunAgain

RerunSpec == Init /\ [][RerunNext]_vars

(***************************************************************************)
(* Connection.__init__ and calculate_equil_flux, statement by statement.   *)
(*                                                                         *)
(* Numbers.  Concentrations, rate constants and fluxes are integers of a   *)
(* small grid, and Keq is the fraction num/den with den = 0 for +inf, so   *)
(* every comparison the code makes is decided exactly.  On this grid two   *)
(* different values are further apart than any tolerance of the code:      *)
(* x < 1e-18 and abs(x) < 1e-16 are x = 0, and two equilibrium constants   *)
(* are within 1e-6 in log10 exactly if they are equal.                     *)
(*                                                                         *)
(* numeric is the type of the numbers handed to the constructor: dividing  *)
(* a Python float by zero raises ZeroDivisionError, dividing a numpy       *)
(* float64 by zero gives inf or nan and a warning.  What fsolve returns is *)
(* always a float64.                                                       *)
(*                                                                         *)
(* fsolve is not part of the source: its result is taken as any number of  *)
(* the grid, a root or not.  flux_guess only seeds fsolve and is not       *)
(* computed, but the errors its computation can raise are.                 *)
(***************************************************************************)
MaxConc == 2
MaxRate == 2

ConcValues == 0 .. MaxConc
RateValues == 1 .. MaxRate
FluxValues == (0 - 2 * MaxConc) .. (2 * MaxConc)

Fraction(num, den) == [ num |-> num, den |-> den ]
Infinity == Fraction(1, 0)

(* math.exp(-G_rxn/T/R)*(100000/R/T)**(...): the thermochemistry is not part of
   the source, its value is one of these *)
ThermoKeqValues == { Fraction(1, 2), Fraction(2, 1) }

(* the arguments of one constructor call; species 0 is the reactant, 1 the
   product, 2 the coreactant and 3 the coproduct, and a species that takes no
   part has concentration 0 *)
ConnectionArguments ==
    { a \in [ core_concentrations : [ 0 .. 3 -> ConcValues ],
              coreactant_index : { None, Some(2) },
              coproduct_index : { None, Some(3) },
              kf : { None } \cup { Some(k) : k \in RateValues },
              kb : { None, Some(0) } \cup { Some(k) : k \in RateValues },
              numeric : { "float", "float64" },
              thermo_Keq : ThermoKeqValues ] :
        /\ a.coreactant_index = None => a.core_concentrations[2] = 0
        /\ a.coproduct_index = None => a.core_concentrations[3] = 0
        /\ a.kf # None => a.thermo_Keq = Fraction(2, 1)
        /\ a.kf = None => a.kb \in { None, Some(1) } }

(* lines 339-376 and the arguments kept for the later steps *)
NewConnection(a) ==
    LET fields == Connection(a.core_concentrations, 0, 1, a.coreactant_index,
                             a.coproduct_index, "unset", 0)
    IN  [ reactant |-> fields.reactant,
          reactant_conc |-> fields.reactant_conc,
          product |-> fields.product,
          product_conc |-> fields.product_conc,
          species_count |-> fields.species_count,
          coreactant |-> fields.coreactant,
          coreactant_conc |-> fields.coreactant_conc,
          min_reactant_conc |-> fields.min_reactant_conc,
          delta_reactant_conc |->
              IF fields.species_count[1] = 2
              THEN Abs(Value(fields.coreactant_conc) - fields.reactant_conc) ELSE 0,
          coproduct |-> fields.coproduct,
          coproduct_conc |-> fields.coproduct_conc,
          min_product_conc |-> fields.min_product_conc,
          delta_product_conc |->
              IF fields.species_count[2] = 2
              THEN Abs(Value(fields.coproduct_conc) - fields.product_conc) ELSE 0,
          kf |-> a.kf,
          kb |-> a.kb,
          numeric |-> a.numeric,
          thermo_Keq |-> a.thermo_Keq,
          pooling_time |-> None,
          Keq |-> Fraction(0, 0),
          Keq_from |-> "unset",
          equil_flux |-> 0,
          flux_from |-> "unset",
          solves |-> 0,
          time_constant |-> "unset" ]

(* the two sides of the balance equation at flux x: flux_K is their quotient *)
ProductSide(conn, x) ==
    (conn.product_conc + x)
        * (IF conn.species_count[2] = 2 THEN Value(conn.coproduct_conc) + x ELSE 1)

ReactantSide(conn, x) ==
    (conn.reactant_conc - x)
        * (IF conn.species_count[1] = 2 THEN Value(conn.coreactant_conc) - x ELSE 1)

(* reactant_conc-flux, product_conc+flux and, where they apply,
   coreactant_conc-flux and coproduct_conc+flux *)
PostFluxConcentrations(conn, flux) ==
    { conn.reactant_conc - flux, conn.product_conc + flux }
    \cup (IF conn.species_count[1] = 2
          THEN { Value(conn.coreactant_conc) - flux } ELSE {})
    \cup (IF conn.species_count[2] = 2
          THEN { Value(conn.coproduct_conc) + flux } ELSE {})

pos_flux_check(conn, flux) == \A i \in PostFluxConcentrations(conn, flux) : i > 0

(* the check passes whatever the flux *)
flux_K_check_AlwaysTrue(conn) == "True"

(* flux_K_check: "True", "False", or "ValueError" when math.log10 gets a
   number that is not positive.  equil_flux comes from fsolve, so the
   divisions are float64 divisions: x/0 is inf, -inf or nan, and a residual
   that is nan is not > 1e-6, so the check returns True *)
flux_K_check(conn) ==
    LET n == ProductSide(conn, conn.equil_flux)
        d == ReactantSide(conn, conn.equil_flux)
    IN  IF d = 0
        THEN IF n = 0 \/ conn.Keq.den = 0 THEN "True" ELSE "ValueError"
        ELSE IF n = 0
        THEN (* flux_K is 0.0, or -0.0 when the other factor is negative, and
                Keq/flux_K is inf or -inf *)
             IF \E i \in PostFluxConcentrations(conn, conn.equil_flux) : i < 0
             THEN "ValueError" ELSE "False"
        ELSE IF n * d < 0 THEN "ValueError"
        ELSE IF conn.Keq.den = 0 THEN "False"
        ELSE IF conn.Keq.num * Abs(d) = conn.Keq.den * Abs(n) THEN "True"
        ELSE "False"

(* inst_K/self.Keq<1, with inst_K = inf when min_reactant_conc is 0 *)
NetForward(conn) ==
    /\ conn.min_reactant_conc # 0
    /\ \/ conn.Keq.den = 0
       \/ ProductSide(conn, 0) * conn.Keq.den < ReactantSide(conn, 0) * conn.Keq.num

(* abs(kb/kf-1)<=1e-3 *)
NearUnity(conn) == Value(conn.kb) = Value(conn.kf)

ConnectionInit ==
    /\ pc = "Keq"
    /\ error = "none"
    /\ self \in { NewConnection(a) : a \in ConnectionArguments }
    /\ core_concentrations = InitialConcentrations
    /\ direct_connections_list = << >>
    /\ cursor = 0
    /\ log10_minimum = None
    /\ log10_maximum = None
    /\ remaining = << >>
    /\ pooling_times = None
    /\ calls = << >>
    /\ first_run = None
    /\ possible_connections = << >>
    /\ removed_connections = {}
    /\ conn0 = 0
    /\ conn1 = 0
    /\ library = None
    /\ result = None

(* raise: the exception leaves the constructor *)
Raise(exception) ==
    /\ pc' = "raised"
    /\ error' = exception
    /\ UNCHANGED self

(* lines 387-393: kf/kb whenever kf is given; None != 0 is true, so a kb that
   is None is divided by *)
ComputeKeq ==
    /\ pc = "Keq"
    /\ IF self.kf # None
       THEN IF self.kb # Some(0)
            THEN IF self.kb = None
                 THEN Raise("TypeError")
                 ELSE /\ self' = [ self EXCEPT
                              !.Keq = Fraction(Value(self.kf), Value(self.kb)),
                              !.Keq_from = "kf/kb" ]
                      /\ pc' = "calculate_equil_flux"
                      /\ UNCHANGED error
            ELSE /\ self' = [ self EXCEPT !.Keq = Infinity, !.Keq_from = "kf/kb" ]
                 /\ pc' = "calculate_equil_flux"
                 /\ UNCHANGED error
       ELSE /\ self' = [ self EXCEPT !.Keq = self.thermo_Keq, !.Keq_from = "G_rxn" ]
            /\ pc' = "calculate_equil_flux"
            /\ UNCHANGED error
    /\ UNCHANGED << search_vars, library_vars >>

(* line 488, and line 492 for (2,2): on the grid the remainder
   (product_conc+min_reactant_conc)*(coproduct_conc+min_reactant_conc)/Keq/
   delta_reactant_conc is below 1e-18 exactly if it is 0 *)
ZeroFluxShortcut(conn) ==
    \/ Max2(conn.min_product_conc, conn.min_reactant_conc) = 0
    \/ /\ conn.species_count = << 2, 2 >>
       /\ conn.delta_reactant_conc # 0
       /\ \/ conn.Keq.den = 0
          \/ (conn.product_conc + conn.min_reactant_conc)
                 * (Value(conn.coproduct_conc) + conn.min_reactant_conc) = 0

(* lines 488-495: equil_flux = 0 and return, the solver and the check skipped *)
ZeroFlux ==
    /\ pc = "calculate_equil_flux"
    /\ ZeroFluxShortcut(self)
    /\ self' = [ self EXCEPT !.equil_flux = 0, !.flux_from = "shortcut" ]
    /\ pc' = "time_constant"
    /\ UNCHANGED << error, search_vars, library_vars >>

(* lines 496-507, 539-548, 563-572, 583-592: the initial guess.  For (2,2)
   it is divided by 2*(Keq-1) *)
InitialGuess ==
    /\ pc = "calculate_equil_flux"
    /\ ~ ZeroFluxShortcut(self)
    /\ IF /\ self.species_count = << 2, 2 >>
          /\ self.Keq.num = self.Keq.den
          /\ self.numeric = "float"
       THEN Raise("ZeroDivisionError")
       ELSE /\ pc' = "fsolve"
            /\ UNCHANGED << error, self >>
    /\ UNCHANGED << search_vars, library_vars >>

(* lines 510, 552, 578, 595: self.equil_flux=fsolve(func,self.flux_guess)[0] *)
Solve ==
    /\ pc = "fsolve"
    /\ \E x \in FluxValues :
         self' = [ self EXCEPT !.equil_flux = x, !.flux_from = "fsolve",
                               !.solves = self.solves + 1 ]
    /\ pc' = "flux_K_check"
    /\ UNCHANGED << error, search_vars, library_vars >>

(* lines 511-518, 553-560, 579-580, 596-597: the check after the first solve.
   Only (2,2) has a second solve; the (2,1) branch calls fsolve with an
   argument that adds coproduct_conc, which is None for (2,1).  On the grid
   abs(math.log10((min_reactant_conc-equil_flux)/min_reactant_conc))>1e-5 is
   equil_flux # 0, and the (2,1) remainder is below 1e-5 exactly if Keq is inf *)
VerifyFlux ==
    /\ pc = "flux_K_check"
    /\ \E check \in { flux_K_check(self) } :
         IF check = "True"
         THEN /\ pc' = "time_constant"
              /\ UNCHANGED << error, self >>
         ELSE IF check = "ValueError"
         THEN Raise("ValueError")
         ELSE IF self.species_count = << 2, 2 >>
         THEN IF ~ NetForward(self)
              THEN Raise("bad equil")
              ELSE IF self.equil_flux >= self.min_reactant_conc
              THEN Raise("ValueError")
              ELSE IF self.equil_flux = 0
              THEN Raise("bad equil")
              ELSE IF self.delta_reactant_conc = 0 /\ self.numeric = "float"
              THEN Raise("ZeroDivisionError")
              ELSE /\ pc' = "retry"
                   /\ UNCHANGED << error, self >>
         ELSE IF self.species_count = << 2, 1 >>
         THEN IF /\ self.delta_reactant_conc # 0
                 /\ NetForward(self)
                 /\ self.Keq.den = 0
              THEN Raise("TypeError")
              ELSE Raise("bad equil")
         ELSE Raise("bad equil")
    /\ UNCHANGED << search_vars, library_vars >>

(* line 514: self.equil_flux=self.min_reactant_conc-fsolve(func,...)[0] *)
RetrySolve ==
    /\ pc = "retry"
    /\ \E y \in FluxValues :
         self' = [ self EXCEPT !.equil_flux = self.min_reactant_conc - y,
                               !.flux_from = "retry",
                               !.solves = self.solves + 1 ]
    /\ pc' = "retry_check"
    /\ UNCHANGED << error, search_vars, library_vars >>

(* lines 515-518 *)
VerifyRetry ==
    /\ pc = "retry_check"
    /\ \E check \in { flux_K_check(self) } :
         IF check = "True"
         THEN /\ pc' = "time_constant"
              /\ UNCHANGED << error, self >>
         ELSE IF check = "ValueError"
         THEN Raise("ValueError")
         ELSE Raise("bad equil")
    /\ UNCHANGED << search_vars, library_vars >>

(* the argument of the logarithm of line 416, times 10:
   a/(a+(kf+kb)*equil_flux*0.9) with a = -reactant_conc*kf+product_conc*kb *)
LogArgument11(conn) ==
    LET a == conn.product_conc * Value(conn.kb) - conn.reactant_conc * Value(conn.kf)
    IN  [ num |-> a,
          den |-> 10 * a + 9 * (Value(conn.kf) + Value(conn.kb)) * conn.equil_flux ]

(* the arguments of the two logarithms of line 448, the second times 10 *)
LogArgument22(conn) ==
    LET a == conn.min_product_conc * conn.min_product_conc
                 + conn.min_product_conc * conn.delta_product_conc
                 - conn.min_reactant_conc * conn.min_reactant_conc
                 - conn.min_reactant_conc * conn.delta_reactant_conc
    IN  [ first |-> a,
          second |-> 10 * a
              + 9 * conn.equil_flux
                  * (2 * conn.min_reactant_conc + 2 * conn.min_product_conc
                     + conn.delta_product_conc + conn.delta_reactant_conc) ]

(* the number a1 is the square root of 1/...: lines 418 and 442; line 431 has
   kf**2 in it and is never 0 *)
A1Denominator(conn) ==
    IF conn.species_count = << 2, 1 >>
    THEN 4 * conn.min_reactant_conc * Value(conn.kf) * Value(conn.kb)
         + 4 * conn.product_conc * Value(conn.kf) * Value(conn.kb)
         + conn.delta_reactant_conc * conn.delta_reactant_conc
               * Value(conn.kf) * Value(conn.kf)
         + 2 * conn.delta_reactant_conc * Value(conn.kf) * Value(conn.kb)
         + Value(conn.kb) * Value(conn.kb)
    ELSE Value(conn.kf) * Value(conn.kb)
             * ( 4 * conn.min_reactant_conc * conn.min_reactant_conc
               + 8 * conn.min_reactant_conc * conn.min_product_conc
               + 4 * conn.min_reactant_conc * conn.delta_product_conc
               + 4 * conn.min_reactant_conc * conn.delta_reactant_conc
               + 4 * conn.min_product_conc * conn.min_product_conc
               + 4 * conn.min_product_conc * conn.delta_product_conc
               + 4 * conn.min_product_conc * conn.delta_reactant_conc
               + 2 * conn.delta_product_conc * conn.delta_reactant_conc )
         + conn.delta_product_conc * conn.delta_product_conc
               * Value(conn.kb) * Value(conn.kb)
         + conn.delta_reactant_conc * conn.delta_reactant_conc
               * Value(conn.kf) * Value(conn.kf)

(* lines 414-449: which error the closed form raises, "none" if it gives a
   number.  math.log of a number that is not positive is a ValueError; a
   Python float divided by zero is a ZeroDivisionError, a float64 divided by
   zero is inf or nan, and math.log of inf or nan is no error.  For (2,1),
   (1,2) and the general (2,2) form the logarithm's argument depends on the
   square root a1 and is not decided here: the logarithm is taken as defined *)
ClosedFormError(conn) ==
    IF conn.species_count = << 1, 1 >>
    THEN LET arg == LogArgument11(conn)
         IN  IF arg.den = 0
             THEN IF arg.num < 0 THEN "ValueError" ELSE "none"
             ELSE IF arg.num * arg.den <= 0 THEN "ValueError" ELSE "none"
    ELSE IF conn.species_count = << 2, 1 >>
    THEN IF A1Denominator(conn) = 0 /\ conn.numeric = "float"
         THEN "ZeroDivisionError" ELSE "none"
    ELSE IF conn.species_count = << 1, 2 >>
    THEN IF Value(conn.kb) = 0 /\ conn.numeric = "float"
         THEN "ZeroDivisionError" ELSE "none"
    ELSE IF ~ NearUnity(conn)
    THEN IF A1Denominator(conn) = 0 /\ conn.numeric = "float"
         THEN "ZeroDivisionError" ELSE "none"
    ELSE IF LogArgument22(conn).first <= 0 \/ LogArgument22(conn).second <= 0
    THEN "ValueError" ELSE "none"

(* the time constant is left as the closed form gives it *)
TimeConstantOf_NoShortcut(conn) ==
    IF conn.kf = None THEN "None" ELSE "closed form"

(* lines 396-461: None without kf; 0 when abs(equil_flux)<1e-16 or
   max(min_reactant_conc,min_product_conc)<1e-18; else the closed form *)
TimeConstantOf(conn) ==
    IF conn.kf = None THEN "None"
    ELSE IF conn.equil_flux = 0
            \/ Max2(conn.min_reactant_conc, conn.min_product_conc) = 0
    THEN "0"
    ELSE "closed form"

(* lines 396-468; the structure comparison of lines 463-468 is not part of
   the source and is taken to return *)
TimeConstant ==
    /\ pc = "time_constant"
    /\ \E value \in { TimeConstantOf(self) } :
         IF value = "closed form" /\ ClosedFormError(self) # "none"
         THEN Raise(ClosedFormError(self))
         ELSE /\ self' = [ self EXCEPT !.time_constant = value ]
              /\ pc' = "constructed"
              /\ UNCHANGED error
    /\ UNCHANGED << search_vars, library_vars >>

ConnectionNext ==
    \/ ComputeKeq
    \/ ZeroFlux
    \/ InitialGuess
    \/ Solve
    \/ VerifyFlux
    \/ RetrySolve
    \/ VerifyRetry
    \/ TimeConstant

ConnectionSpec == ConnectionInit /\ [][ConnectionNext]_vars

(***************************************************************************)
(* search_priority, the step "remove already covered connections", one     *)
(* comparison at a time.  The inner for loop reads possible_connections    *)
(* by position while the list is being shortened.                          *)
(***************************************************************************)
MaxDirect == 2
MaxPossible == 3

(* the hash keeps the direction: the pair of pairs in the order given *)
ConnectionHash_Directed(conn) ==
    { << << conn.reactant, conn.coreactant >>, << conn.product, conn.coproduct >> >> }

(* self.hash: the set of the reactant-side pair and the product-side pair *)
ConnectionHash(conn) ==
    { << conn.reactant, conn.coreactant >>, << conn.product, conn.coproduct >> }

is_same_connection(conn, other_connection) ==
    ConnectionHash(conn) = ConnectionHash(other_connection)

(* the index arguments of the connections of the two lists *)
ConnectionShapes ==
    { [ reactant_index |-> 0, coreactant_index |-> None,
        product_index |-> 1, coproduct_index |-> None ],
      [ reactant_index |-> 1, coreactant_index |-> None,
        product_index |-> 0, coproduct_index |-> None ],
      [ reactant_index |-> 0, coreactant_index |-> Some(0),
        product_index |-> 1, coproduct_index |-> None ],
      [ reactant_index |-> 1, coreactant_index |-> None,
        product_index |-> 0, coproduct_index |-> Some(0) ],
      [ reactant_index |-> 0, coreactant_index |-> None,
        product_index |-> 2, coproduct_index |-> None ] }

ShapedConnection(shape) ==
    Connection(InitialConcentrations, shape.reactant_index, shape.product_index,
               shape.coreactant_index, shape.coproduct_index, None, 0)

(* the connection built in the opposite direction *)
ReverseConnection(shape) ==
    Connection(InitialConcentrations, shape.product_index, shape.reactant_index,
               shape.coproduct_index, shape.coreactant_index, None, 0)

ShapeLists(lo, hi) == UNION { [ 1 .. n -> ConnectionShapes ] : n \in lo .. hi }

(* a Connection object of possible_connections: two objects with the same
   fields are two objects *)
PossibleConnection(object, shape) ==
    [ object |-> object, connection |-> ShapedConnection(shape) ]

(* list.remove of the element at this position *)
RemoveAt(list, position) ==
    [ k \in 1 .. (Len(list) - 1) |-> IF k < position THEN list[k] ELSE list[k + 1] ]

DedupInit ==
    /\ pc = "dedup"
    /\ error = "none"
    /\ core_concentrations = InitialConcentrations
    /\ direct_connections_list \in
           { [ k \in DOMAIN shapes |-> ShapedConnection(shapes[k]) ] :
               shapes \in ShapeLists(1, MaxDirect) }
    /\ possible_connections \in
           { [ k \in DOMAIN shapes |-> PossibleConnection(k, shapes[k]) ] :
               shapes \in ShapeLists(0, MaxPossible) }
    /\ removed_connections = {}
    /\ conn0 = 1
    /\ conn1 = 1
    /\ cursor = 0
    /\ log10_minimum = None
    /\ log10_maximum = None
    /\ remaining = << >>
    /\ pooling_times = None
    /\ calls = << >>
    /\ first_run = None
    /\ self = None
    /\ library = None
    /\ result = None

(* lines 183-187: one pass of the inner loop body *)
CompareHashes ==
    /\ pc = "dedup"
    /\ conn0 <= Len(direct_connections_list)
    /\ conn1 <= Len(possible_connections)
    /\ IF is_same_connection(direct_connections_list[conn0],
                             possible_connections[conn1].connection)
       THEN /\ possible_connections' = RemoveAt(possible_connections, conn1)
            /\ removed_connections' =
                   removed_connections \cup { possible_connections[conn1].object }
       ELSE UNCHANGED << possible_connections, removed_connections >>
    /\ conn1' = conn1 + 1
    /\ UNCHANGED << pc, error, core_concentrations, direct_connections_list, cursor,
                    log10_minimum, log10_maximum, remaining, pooling_times, calls,
                    first_run, conn0, self, library_vars >>

(* the inner loop is exhausted: the outer loop takes the next conn0 *)
NextDirectConnection ==
    /\ pc = "dedup"
    /\ conn0 <= Len(direct_connections_list)
    /\ conn1 > Len(possible_connections)
    /\ conn0' = conn0 + 1
    /\ conn1' = 1
    /\ UNCHANGED << pc, error, core_concentrations, direct_connections_list, cursor,
                    log10_minimum, log10_maximum, remaining, pooling_times, calls,
                    first_run, possible_connections, removed_connections, self,
                    library_vars >>

(* the outer loop is exhausted *)
FinishDedup ==
    /\ pc = "dedup"
    /\ conn0 > Len(direct_connections_list)
    /\ pc' = "deduplicated"
    /\ UNCHANGED << error, search_vars, self, library_vars >>

DedupNext ==
    \/ CompareHashes
    \/ NextDirectConnection
    \/ FinishDedup

DedupSpec == DedupInit /\ [][DedupNext]_vars

(***************************************************************************)
(* The pooling-time mutators of a constructed Connection.  calls is the    *)
(* log of the mutator calls made on it: the method, its argument and the   *)
(* Connection as it was before the call.                                   *)
(***************************************************************************)
MaxPoolingTime == 3
MaxMutatorCalls == 3

PoolingTimeValues == 1 .. MaxPoolingTime

(* the larger value is kept *)
RatchetedTime_KeepsMax(pooling_time, new_time) ==
    IF pooling_time = None THEN Some(new_time)
    ELSE IF Value(pooling_time) < new_time THEN Some(new_time)
    ELSE pooling_time

(* the new value is kept whatever it is *)
RatchetedTime_Assigns(pooling_time, new_time) == Some(new_time)

(* lines 471-474 *)
RatchetedTime(pooling_time, new_time) ==
    IF pooling_time = None THEN Some(new_time)
    ELSE IF Value(pooling_time) > new_time THEN Some(new_time)
    ELSE pooling_time

(* connections whose construction has completed: no rate constants, every
   concentration 0, so that the flux is 0 by the shortcut of line 488 and
   the time constant is None *)
ConstructedConnections ==
    { [ NewConnection(a) EXCEPT !.Keq = a.thermo_Keq, !.Keq_from = "G_rxn",
                                !.flux_from = "shortcut", !.time_constant = "None" ] :
        a \in { b \in ConnectionArguments :
                  /\ b.kf = None
                  /\ b.kb = None
                  /\ \A i \in 0 .. 3 : b.core_concentrations[i] = 0 } }

PoolingTimeInit ==
    /\ pc = "constructed"
    /\ error = "none"
    /\ self \in ConstructedConnections
    /\ core_concentrations = InitialConcentrations
    /\ direct_connections_list = << >>
    /\ cursor = 0
    /\ log10_minimum = None
    /\ log10_maximum = None
    /\ remaining = << >>
    /\ pooling_times = None
    /\ calls = << >>
    /\ first_run = None
    /\ possible_connections = << >>
    /\ removed_connections = {}
    /\ conn0 = 0
    /\ conn1 = 0
    /\ library = None
    /\ result = None

(* the call is logged *)
LogMutatorCall(method, new_time) ==
    /\ calls' = Append(calls, [ method |-> method, new_time |-> new_time,
                                before |-> self ])
    /\ UNCHANGED << pc, error, core_concentrations, direct_connections_list, cursor,
                    log10_minimum, log10_maximum, remaining, pooling_times,
                    first_run, dedup_vars, library_vars >>

ratchet_pooling_time(new_time) ==
    /\ pc = "constructed"
    /\ Len(calls) < MaxMutatorCalls
    /\ self' = [ self EXCEPT !.pooling_time = RatchetedTime(self.pooling_time, new_time) ]
    /\ LogMutatorCall("ratchet_pooling_time", new_time)

set_pooling_time(new_time) ==
    /\ pc = "constructed"
    /\ Len(calls) < MaxMutatorCalls
    /\ self' = [ self EXCEPT !.pooling_time = Some(new_time) ]
    /\ LogMutatorCall("set_pooling_time", new_time)

PoolingTimeNext ==
    \/ \E new_time \in PoolingTimeValues : ratchet_pooling_time(new_time)
    \/ \E new_time \in PoolingTimeValues : set_pooling_time(new_time)

PoolingTimeSpec == PoolingTimeInit /\ [][PoolingTimeNext]_vars

(***************************************************************************)
(* The libraries of rmgpy/data/surface.py: MetalLibrary,                   *)
(* MetalPropertyLibrary and SitePropertyLibrary.  entries is the dict of   *)
(* the library in insertion order.  A property argument is None or a       *)
(* number in tenths: 0 is the falsy value of its type (0, 0.0, {}, ()).    *)
(***************************************************************************)
LibraryClasses == { "MetalLibrary", "MetalPropertyLibrary", "SitePropertyLibrary" }

LibraryLabels == { "Pt111", "Ni111" }
QueryLabels == LibraryLabels \cup { "Cu111" }
Metals == { "Pt", "Ni" }
Facets == { "111", "100" }

PropertiesOf(class) ==
    IF class = "MetalLibrary" THEN { "surface_site_density", "binding_energies" }
    ELSE IF class = "MetalPropertyLibrary"
    THEN { "valence_electrons", "electronegativity", "psi", "beta" }
    ELSE { "coordination_number" }

(* the property arguments a load_entry call is given *)
PropertyArguments(property) ==
    IF property = "valence_electrons"
    THEN { None, Some(0), Some(5), Some(10) }
    ELSE { None, Some(0), Some(10) }

(* if x: ... else: None, with the conversion of the class: int(x) for
   valence_electrons, float(x), Energy(x) or SurfaceConcentration of x for
   the others *)
Converted(property, argument) ==
    IF argument = None \/ Value(argument) = 0 THEN None
    ELSE IF property = "valence_electrons" THEN Some(Value(argument) \div 10)
    ELSE argument

(* self.entries[label] = Entry(...): a label that is present keeps its place *)
StoreEntry(entries, entry) ==
    IF \E k \in DOMAIN entries : entries[k].label = entry.label
    THEN [ k \in DOMAIN entries |->
             IF entries[k].label = entry.label THEN entry ELSE entries[k] ]
    ELSE Append(entries, entry)

(* self.entries[label], or KeyError *)
HasEntry(entries, label) == \E k \in DOMAIN entries : entries[k].label = label
EntryOf(entries, label) ==
    entries[CHOOSE k \in DOMAIN entries : entries[k].label = label]

Returned(value) == [ outcome |-> "returned", value |-> value ]
Raised(exception) == [ outcome |-> exception, value |-> None ]

(* the property is returned as it is stored, None included *)
GetterResult_NoNoneCheck(entries, property, label) ==
    IF ~ HasEntry(entries, label) THEN Raised("DatabaseError")
    ELSE Returned(EntryOf(entries, label).properties[property])

(* try: x = self.entries[label].x / except KeyError: raise DatabaseError /
   if x is None: raise DatabaseError / return x *)
GetterResult(entries, property, label) ==
    IF ~ HasEntry(entries, label) THEN Raised("DatabaseError")
    ELSE IF EntryOf(entries, label).properties[property] = None
    THEN Raised("DatabaseError")
    ELSE Returned(EntryOf(entries, label).properties[property])

(* the labels of the entries that match, in the order of the dict *)
RECURSIVE MatchingLabels(_, _, _)
MatchingLabels(entries, field, name) ==
    IF entries = << >> THEN << >>
    ELSE (IF Head(entries)[field] = name THEN << Head(entries).label >> ELSE << >>)
         \o MatchingLabels(Tail(entries), field, name)

(* matches = [...]; if len(matches) == 0: raise DatabaseError; return matches *)
MatchesResult(entries, field, name) ==
    IF Len(MatchingLabels(entries, field, name)) = 0
    THEN Raised("DatabaseError")
    ELSE Returned(MatchingLabels(entries, field, name))

(* MetalDatabase.find_binding_energies reads its argument as text: the
   spelling of every text a query or an entry uses *)
Spelling ==
    [ text \in { "Pt111", "Ni111", "Cu111", "Pt100", "Pt", "Ni", "Cu" } |->
        CASE text = "Pt111" -> << "P", "t", "1", "1", "1" >>
          [] text = "Ni111" -> << "N", "i", "1", "1", "1" >>
          [] text = "Cu111" -> << "C", "u", "1", "1", "1" >>
          [] text = "Pt100" -> << "P", "t", "1", "0", "0" >>
          [] text = "Pt" -> << "P", "t" >>
          [] text = "Ni" -> << "N", "i" >>
          [] text = "Cu" -> << "C", "u" >> ]

Spelled(characters) == CHOOSE text \in DOMAIN Spelling : Spelling[text] = characters

DigitCharacters == { "0", "1", "2", "3", "4", "5", "6", "7", "8", "9" }

(* re.search(r'\d+', metal): None, or the match, of which span()[0] is read:
   the number of characters before the first digit *)
FacetSearch(metal) ==
    LET digits == { k \in DOMAIN Spelling[metal] : Spelling[metal][k] \in DigitCharacters }
    IN  IF digits = {} THEN None
        ELSE Some((CHOOSE k \in digits : \A other \in digits : k <= other) - 1)

(* metal[:facet.span()[0]] *)
GenericMetal(metal) == Spelled(SubSeq(Spelling[metal], 1, Value(FacetSearch(metal))))

(* the arguments of find_binding_energies: None or a str *)
FindArguments == { None } \cup { Some(text) : text \in DOMAIN Spelling }

(* the last match is used where the code uses metal_entry_matches[0] *)
FindResult_LastMatch(entries, metal) ==
    IF metal = None THEN Raised("DatabaseError")
    ELSE LET facet == FacetSearch(Value(metal))
             exact == GetterResult(entries, "binding_energies", Value(metal))
         IN  IF facet # None /\ exact.outcome = "returned" THEN exact
             ELSE LET generic == IF facet # None THEN GenericMetal(Value(metal))
                                 ELSE Value(metal)
                      metal_entry_matches == MatchesResult(entries, "metal", generic)
                  IN  IF metal_entry_matches.outcome # "returned"
                      THEN Raised(metal_entry_matches.outcome)
                      ELSE GetterResult(entries, "binding_energies",
                               metal_entry_matches.value[Len(metal_entry_matches.value)])

(* find_binding_energies: None raises; a label with a facet is looked up as it
   is, and a DatabaseError of that lookup sends the search on with the text
   before the facet; without a facet the first entry on the metal is used (one
   match or several: both branches read metal_entry_matches[0]), and the
   DatabaseError of get_all_entries_on_metal or of get_binding_energies
   leaves the method *)
FindResult(entries, metal) ==
    IF metal = None THEN Raised("DatabaseError")
    ELSE LET facet == FacetSearch(Value(metal))
             exact == GetterResult(entries, "binding_energies", Value(metal))
         IN  IF facet # None /\ exact.outcome = "returned" THEN exact
             ELSE LET generic == IF facet # None THEN GenericMetal(Value(metal))
                                 ELSE Value(metal)
                      metal_entry_matches == MatchesResult(entries, "metal", generic)
                  IN  IF metal_entry_matches.outcome # "returned"
                      THEN Raised(metal_entry_matches.outcome)
                      ELSE GetterResult(entries, "binding_energies",
                               metal_entry_matches.value[1])

LibraryInit ==
    /\ pc = "library"
    /\ error = "none"
    /\ library \in { [ class |-> class, entries |-> << >> ] : class \in LibraryClasses }
    /\ result = None
    /\ core_concentrations = InitialConcentrations
    /\ direct_connections_list = << >>
    /\ cursor = 0
    /\ log10_minimum = None
    /\ log10_maximum = None
    /\ remaining = << >>
    /\ pooling_times = None
    /\ calls = << >>
    /\ first_run = None
    /\ possible_connections = << >>
    /\ removed_connections = {}
    /\ conn0 = 0
    /\ conn1 = 0
    /\ self = None

(* a call returns or raises: the library is as it was *)
Answer(call, argument, answer) ==
    /\ result' = Some([ call |-> call, argument |-> argument,
                        outcome |-> answer.outcome, value |-> answer.value ])
    /\ error' = IF answer.outcome = "returned" THEN "none" ELSE answer.outcome
    /\ UNCHANGED << pc, library, search_vars, self >>

(* load_entry of the three classes: metal is read by MetalLibrary only and
   facet by SitePropertyLibrary only, the other classes get the default '' *)
load_entry(label, metal, facet, arguments) ==
    /\ pc = "library"
    /\ library' = [ library EXCEPT !.entries =
           StoreEntry(library.entries,
                      [ label |-> label, metal |-> metal, facet |-> facet,
                        properties |->
                            [ p \in PropertiesOf(library.class) |->
                                Converted(p, arguments[p]) ] ]) ]
    /\ result' = Some([ call |-> "load_entry", argument |-> label,
                        outcome |-> "returned", value |-> None ])
    /\ error' = "none"
    /\ UNCHANGED << pc, search_vars, self >>

LoadEntry ==
    \E label \in LibraryLabels :
      \E metal \in (IF library.class = "MetalLibrary" THEN Metals ELSE { "" }) :
        \E facet \in (IF library.class = "SitePropertyLibrary" THEN Facets ELSE { "" }) :
          \E arguments \in [ PropertiesOf(library.class) -> { None, Some(0), Some(5), Some(10) } ] :
            /\ \A p \in PropertiesOf(library.class) : arguments[p] \in PropertyArguments(p)
            /\ load_entry(label, metal, facet, arguments)

get_binding_energies(label) ==
    /\ pc = "library" /\ library.class = "MetalLibrary"
    /\ Answer("get_binding_energies", label, GetterResult(library.entries, "binding_energies", label))

get_surface_site_density(label) ==
    /\ pc = "library" /\ library.class = "MetalLibrary"
    /\ Answer("get_surface_site_density", label, GetterResult(library.entries, "surface_site_density", label))

get_all_entries_on_metal(metal_name) ==
    /\ pc = "library" /\ library.class = "MetalLibrary"
    /\ Answer("get_all_entries_on_metal", metal_name, MatchesResult(library.entries, "metal", metal_name))

get_valence_electrons(label) ==
    /\ pc = "library" /\ library.class = "MetalPropertyLibrary"
    /\ Answer("get_valence_electrons", label, GetterResult(library.entries, "valence_electrons", label))

get_electronegativity(label) ==
    /\ pc = "library" /\ library.class = "MetalPropertyLibrary"
    /\ Answer("get_electronegativity", label, GetterResult(library.entries, "electronegativity", label))

get_psi(label) ==
    /\ pc = "library" /\ library.class = "MetalPropertyLibrary"
    /\ Answer("get_psi", label, GetterResult(library.entries, "psi", label))

get_beta(label) ==
    /\ pc = "library" /\ library.class = "MetalPropertyLibrary"
    /\ Answer("get_beta", label, GetterResult(library.entries, "beta", label))

get_coordination_number(label) ==
    /\ pc = "library" /\ library.class = "SitePropertyLibrary"
    /\ Answer("get_coordination_number", label, GetterResult(library.entries, "coordination_number", label))

get_all_entries_on_facet(facet_name) ==
    /\ pc = "library" /\ library.class = "SitePropertyLibrary"
    /\ Answer("get_all_entries_on_facet", facet_name, MatchesResult(library.entries, "facet", facet_name))

(* MetalDatabase.find_binding_energies on the database whose
   libraries['surface'] is this MetalLibrary *)
find_binding_energies(metal) ==
    /\ pc = "library" /\ library.class = "MetalLibrary"
    /\ Answer("find_binding_energies", metal, FindResult(library.entries, metal))

LibraryNext ==
    \/ LoadEntry
    \/ \E label \in QueryLabels : get_binding_energies(label)
    \/ \E label \in QueryLabels : get_surface_site_density(label)
    \/ \E metal_name \in Metals \cup { "Cu" } : get_all_entries_on_metal(metal_name)
    \/ \E label \in QueryLabels : get_valence_electrons(label)
    \/ \E label \in QueryLabels : get_electronegativity(label)
    \/ \E label \in QueryLabels : get_psi(label)
    \/ \E label \in QueryLabels : get_beta(label)
    \/ \E label \in QueryLabels : get_coordination_number(label)
    \/ \E facet_name \in Facets \cup { "110" } : get_all_entries_on_facet(facet_name)
    \/ \E metal \in FindArguments : find_binding_energies(metal)

LibrarySpec == LibraryInit /\ [][LibraryNext]_vars

(***************************************************************************)
(* Properties.                                                             *)
(***************************************************************************)
SetMax(S) == CHOOSE x \in S : \A y \in S : y <= x
SetMin(S) == CHOOSE x \in S : \A y \in S : x <= y

HasCall == calls # << >>
LastCall == calls[Len(calls)].result
Scanned == [ c \in 1 .. Len(calls) |-> calls[c].log10_time ]

(* the scanned exponents at which j was in the pool group of i *)
PooledAt(i, j) ==
    { calls[c].log10_time :
        c \in { d \in DOMAIN calls : j \in calls[d].result.pool_groups[i] } }

(* C1 as stated: once pooling_time_cycle has finished, cell (i,j) holds the
   exponent of the LARGEST scanned threshold at which i and j were in one
   pool group (the first assignment of the descending scan is kept), and
   the cells of pairs never pooled are NaN. *)
C1_LargestThreshold ==
    pc = "done" =>
        \A i, j \in Species :
            pooling_times[i][j] =
                IF PooledAt(i, j) = {} THEN None ELSE Some(SetMax(PooledAt(i, j)))

(* C1 amended: once pooling_time_cycle has finished, cell (i,j) holds the
   exponent of the SMALLEST scanned threshold at which i and j were in one
   pool group (every iteration of the descending scan overwrites the cell,
   so the last assignment is kept), and the cells of pairs never pooled
   are NaN. *)
C1_SmallestThreshold ==
    pc = "done" =>
        \A i, j \in Species :
            pooling_times[i][j] =
                IF PooledAt(i, j) = {} THEN None ELSE Some(SetMin(PooledAt(i, j)))

C1_Witness ==
    /\ pc = "done"
    /\ \E i, j \in Species : i # j /\ Cardinality(PooledAt(i, j)) >= 2
    /\ \E i, j \in Species : PooledAt(i, j) = {}

(* Scenario C: the fast connections of the call are exactly 0->1, 1->0 and
   1->2. *)
ScenarioC ==
    /\ HasCall
    /\ LastCall.fast_connections[0] = { 1 }
    /\ LastCall.fast_connections[1] = { 0, 2 }
    /\ \A s \in Species \ { 0, 1 } : LastCall.fast_connections[s] = {}

(* C2 as stated: in scenario C the group of 0 contains 1, the group of 1
   contains 0, species 2 is marked broken and no pool group holds 1 and 2
   together. *)
C2_ScenarioC_Stated ==
    ScenarioC =>
        /\ 1 \in LastCall.pool_groups[0]
        /\ 0 \in LastCall.pool_groups[1]
        /\ 2 \in LastCall.broken_pools
        /\ \A i \in Species : ~ ({ 1, 2 } \subseteq LastCall.pool_groups[i])

(* C2 amended: in scenario C species 0 and 1 are marked broken (each of them
   fast-reaches 2, which does not reach back) and their pool groups are
   empty; species 2 is marked broken exactly if the connection 1->2 is also
   strong, and then its group is empty too, otherwise its group is {2}; no
   pool group holds 1 and 2 together. *)
C2_ScenarioC_Amended ==
    ScenarioC =>
        /\ { 0, 1 } \subseteq LastCall.broken_pools
        /\ LastCall.pool_groups[0] = {}
        /\ LastCall.pool_groups[1] = {}
        /\ (2 \in LastCall.broken_pools) <=> (2 \in LastCall.strong_connections[1])
        /\ LastCall.pool_groups[2] = IF 2 \in LastCall.broken_pools THEN {} ELSE { 2 }
        /\ \A i \in Species : ~ ({ 1, 2 } \subseteq LastCall.pool_groups[i])

C2_Witness == ScenarioC /\ Len(direct_connections_list) = 3

(* C3: the pool groups every call of equilibrium_pooling returns are
   symmetric: j is in the group of i exactly if i is in the group of j. *)
C3_PoolGroupsSymmetric ==
    HasCall =>
        \A i, j \in Species :
            (j \in LastCall.pool_groups[i]) <=> (i \in LastCall.pool_groups[j])

(* a call in which the purge ran and a pool of two survived it *)
C3_Witness ==
    /\ HasCall
    /\ LastCall.broken_pools # {}
    /\ \E i, j \in Species : i # j /\ j \in LastCall.pool_groups[i]

(* C4: the pooling-time matrix is symmetric after every iteration of the
   scan and when the scan has finished: cells (i,j) and (j,i) are both NaN
   or hold the same exponent. *)
C4_MatrixSymmetric ==
    pc \in { "scan", "done" } =>
        \A i, j \in Species : pooling_times[i][j] = pooling_times[j][i]

C4_Witness ==
    /\ pc = "done"
    /\ \E i, j \in Species : i # j /\ pooling_times[i][j] # None
    /\ \E i, j \in Species : i # j /\ pooling_times[i][j] = None

(* C5 as stated: pools only shrink as the threshold tightens: a pair that is
   in one pool group at a scanned threshold is in one pool group at every
   larger scanned threshold. *)
C5_PoolsOnlyShrink ==
    \A a, b \in DOMAIN calls :
        a < b =>
            \A i, j \in Species :
                j \in calls[b].result.pool_groups[i]
                    => j \in calls[a].result.pool_groups[i]

(* C5 amended: a pair that is in one pool group at a scanned threshold is
   mutually fast-reachable at every larger scanned threshold (each is in the
   forward-reachable set of the other); the broken-species purge may still
   leave the pair un-pooled there, so a pair un-pooled at one threshold can
   be pooled at a later, tighter one. *)
C5_ReachabilityOnlyShrinks ==
    \A a, b \in DOMAIN calls :
        a < b =>
            \A i, j \in Species :
                j \in calls[b].result.pool_groups[i]
                    => /\ j \in calls[a].result.forward_pass[i]
                       /\ i \in calls[a].result.forward_pass[j]

(* a pair pooled at a tighter threshold and not at a looser one *)
C5_Witness ==
    \E a, b \in DOMAIN calls :
        /\ a < b
        /\ \E i, j \in Species :
              /\ i # j
              /\ j \in calls[b].result.pool_groups[i]
              /\ j \notin calls[a].result.pool_groups[i]

(* the connection is the only one of the list from its reactant to its
   product *)
OnlyEdge(c) ==
    \A d \in DOMAIN direct_connections_list :
        (/\ direct_connections_list[d].reactant = direct_connections_list[c].reactant
         /\ direct_connections_list[d].product = direct_connections_list[c].product)
            => d = c

Is22(conn) == conn.species_count = << 2, 2 >>

ContributesFast(c) ==
    direct_connections_list[c].product
        \in LastCall.fast_connections[direct_connections_list[c].reactant]

ContributesStrong(c) ==
    direct_connections_list[c].product
        \in LastCall.strong_connections[direct_connections_list[c].reactant]

(* C6 as stated: a (2,2) connection with coproduct concentration >= product
   concentration, or coreactant concentration >= reactant concentration,
   contributes no fast and no strong edge at any threshold; one with
   coproduct < product, coreactant < reactant and a time constant below the
   threshold contributes a fast edge. *)
C6_Exclusion_Stated ==
    HasCall =>
        \A c \in DOMAIN direct_connections_list :
            LET conn == direct_connections_list[c]
            IN  Is22(conn) =>
                  /\ (/\ OnlyEdge(c)
                      /\ \/ Value(conn.coproduct_conc) >= conn.product_conc
                         \/ Value(conn.coreactant_conc) >= conn.reactant_conc)
                        => ~ ContributesFast(c) /\ ~ ContributesStrong(c)
                  /\ (/\ Value(conn.coproduct_conc) < conn.product_conc
                      /\ Value(conn.coreactant_conc) < conn.reactant_conc
                      /\ conn.time_constant # None
                      /\ Value(conn.time_constant) < LastCall.t_characteristic)
                        => ContributesFast(c)

(* C6 amended: a (2,2) connection with coproduct concentration < product
   concentration, or coreactant concentration < reactant concentration,
   contributes no fast and no strong edge at any threshold; one with
   coproduct >= product, coreactant >= reactant and a time constant below
   the threshold contributes a fast edge. *)
C6_Exclusion_Amended ==
    HasCall =>
        \A c \in DOMAIN direct_connections_list :
            LET conn == direct_connections_list[c]
            IN  Is22(conn) =>
                  /\ (/\ OnlyEdge(c)
                      /\ \/ Value(conn.coproduct_conc) < conn.product_conc
                         \/ Value(conn.coreactant_conc) < conn.reactant_conc)
                        => ~ ContributesFast(c) /\ ~ ContributesStrong(c)
                  /\ (/\ Value(conn.coproduct_conc) >= conn.product_conc
                      /\ Value(conn.coreactant_conc) >= conn.reactant_conc
                      /\ conn.time_constant # None
                      /\ Value(conn.time_constant) < LastCall.t_characteristic)
                        => ContributesFast(c)

(* a call with one (2,2) connection excluded although its time constant is
   below the threshold, and another one contributing its edge *)
C6_Witness ==
    /\ HasCall
    /\ \E c, d \in DOMAIN direct_connections_list :
          LET excluded == direct_connections_list[c]
              kept == direct_connections_list[d]
          IN  /\ Is22(excluded) /\ Is22(kept)
              /\ OnlyEdge(c)
              /\ Value(excluded.coreactant_conc) < excluded.reactant_conc
              /\ Value(excluded.time_constant) < LastCall.t_characteristic
              /\ ~ ContributesFast(c)
              /\ Value(kept.coproduct_conc) >= kept.product_conc
              /\ Value(kept.coreactant_conc) >= kept.reactant_conc
              /\ Value(kept.time_constant) < LastCall.t_characteristic
              /\ ContributesFast(d)

(* C7: every species marked broken has an empty pool group in the result of
   equilibrium_pooling. *)
C7_BrokenGroupsEmpty ==
    HasCall => \A b \in LastCall.broken_pools : LastCall.pool_groups[b] = {}

(* a broken species that stood in a group of two or more before the purge *)
C7_Witness ==
    /\ HasCall
    /\ \E b \in LastCall.broken_pools :
          Cardinality(PoolGroupsBeforePurge(LastCall.forward_pass)[b]) >= 2

NonNullTimeConstants ==
    { Value(direct_connections_list[c].time_constant) :
        c \in { d \in DOMAIN direct_connections_list :
                  direct_connections_list[d].time_constant # None } }

PositiveSet == { v \in NonNullTimeConstants : v > 0 }

(* C8 as stated: the pool builder runs exactly once for each exponent k with
   log10Min <= k <= log10Max, in strictly descending order, both end points
   included. *)
C8_ScanRange_Stated ==
    pc = "done" =>
        Scanned = [ c \in 1 .. (Value(log10_maximum) - Value(log10_minimum) + 1) |->
                      Value(log10_maximum) - c + 1 ]

(* C8 amended: the pool builder runs exactly once for each exponent k with
   log10Min <= k < log10Max, in strictly descending order, where log10Min =
   floor(log10(smallest positive time constant)) and log10Max =
   ceil(log10(largest time constant)) + 1; log10Min is scanned, log10Max is
   not: the first exponent scanned is log10Max - 1. *)
C8_ScanRange_Amended ==
    pc = "done" =>
        LET lo == Value(log10_minimum)
            hi == Value(log10_maximum)
            smallest == SetMin(PositiveSet)
            largest == SetMax(NonNullTimeConstants)
        IN  /\ Scanned = [ c \in 1 .. (hi - lo) |-> hi - c ]
            /\ lo + Decimals >= 0
            /\ Pow10(lo + Decimals) <= smallest
            /\ smallest < Pow10(lo + Decimals + 1)
            /\ hi - 1 + Decimals >= 0
            /\ largest <= Pow10(hi - 1 + Decimals)
            /\ (hi - 1 + Decimals > 0 => largest > Pow10(hi - 2 + Decimals))

C8_Witness ==
    /\ pc = "done"
    /\ Len(calls) >= 3
    /\ SetMin(PositiveSet) # SetMax(NonNullTimeConstants)

(* C9: when no connection has a positive time constant, pooling_time_cycle
   is a no-op: it returns without raising, the pool builder is not run and
   every cell of the matrix stays NaN. *)
C9_NoOpWithoutPositive ==
    (pc # "build" /\ error # "bad equil" /\ PositiveSet = {}) =>
        /\ error = "none"
        /\ calls = << >>
        /\ pooling_times = NaNMatrix

(* C10: a connection whose evaluation fails does not abort search_priority:
   the batch goes on to the pooling scan and the mechanism file. *)
C10_FailureDoesNotAbort ==
    error = "bad equil" => pc # "raised"

(***************************************************************************)
(* Properties of the Connection constructor (ConnectionSpec).              *)
(***************************************************************************)
BothRateConstants == self.kf # None /\ self.kb # None
Constructed == pc = "constructed"

(* C11 as stated: Keq is kf/kb when both rate constants are supplied (+inf
   when kb is 0); in every other case, kf supplied with kb absent included,
   Keq comes from the free-energy formula, the time constant of the
   constructed Connection is None, and the constructor raises no error for
   the lack of a rate constant. *)
C11_KeqFromRatesOrFreeEnergy ==
    /\ error # "TypeError"
    /\ self.Keq_from # "unset" =>
           IF BothRateConstants
           THEN /\ self.Keq_from = "kf/kb"
                /\ self.Keq = IF Value(self.kb) = 0 THEN Infinity
                              ELSE Fraction(Value(self.kf), Value(self.kb))
           ELSE /\ self.Keq_from = "G_rxn"
                /\ self.Keq = self.thermo_Keq
    /\ (Constructed /\ ~ BothRateConstants) => self.time_constant = "None"

(* the equilibrium constant implied by the stored equil_flux is Keq: flux_K,
   the quotient of the two sides of the balance equation, equals num/den *)
ImpliedKeqMatches ==
    self.Keq.num * ReactantSide(self, self.equil_flux)
        = self.Keq.den * ProductSide(self, self.equil_flux)

FluxFromSolver == self.flux_from \in { "fsolve", "retry" }

(* C12 as stated: every Connection whose construction completes satisfies the
   verification check, the equilibrium constant implied by its equil_flux and
   concentrations being Keq; this includes the connections whose flux was
   set by a zero-flux shortcut. *)
C12_EveryFluxVerified == Constructed => ImpliedKeqMatches

(* C12 amended: every Connection whose construction completes with an
   equil_flux that fsolve returned (first solve or retry) satisfies the
   verification check; a flux set by a zero-flux shortcut is never checked. *)
C12_SolvedFluxVerified == (Constructed /\ FluxFromSolver) => ImpliedKeqMatches

(* a solved connection with a non-zero flux and a finite Keq was constructed *)
C12_Witness ==
    /\ Constructed
    /\ FluxFromSolver
    /\ self.equil_flux # 0
    /\ self.Keq.den # 0

(* C13 as stated: every Connection whose construction completes has
   non-negative post-flux concentrations: reactant - flux, coreactant - flux,
   product + flux and coproduct + flux, those that apply to its class, are
   all >= 0 for the stored equil_flux, whichever root of the balance equation
   the solver returned. *)
C13_PostFluxNonNegative ==
    Constructed => \A i \in PostFluxConcentrations(self, self.equil_flux) : i >= 0

(* both limiting concentrations are below 1e-18: on the grid, both are 0 *)
ZeroBoundary == Max2(self.min_reactant_conc, self.min_product_conc) = 0

(* C14: a connection of any class constructed with rate constants whose
   limiting reactant concentration and limiting product concentration are
   both below 1e-18 gets equil_flux exactly 0 with the solver skipped and
   time_constant exactly 0, not None; its construction raises nothing. *)
C14_ZeroConcentrationBoundary ==
    (BothRateConstants /\ ZeroBoundary) =>
        /\ pc \in { "Keq", "calculate_equil_flux", "time_constant", "constructed" }
        /\ self.solves = 0
        /\ pc \in { "time_constant", "constructed" } =>
               (self.equil_flux = 0 /\ self.flux_from = "shortcut")
        /\ Constructed => self.time_constant = "0"

(* a (2,2) connection at the boundary, its other two concentrations present *)
C14_Witness ==
    /\ Constructed
    /\ BothRateConstants
    /\ ZeroBoundary
    /\ self.species_count = << 2, 2 >>
    /\ self.delta_reactant_conc # 0
    /\ self.delta_product_conc # 0
    /\ self.time_constant = "0"

(* a (2,2) connection with all four concentrations 1 and kf = kb = 1 *)
ScenarioB ==
    /\ self.species_count = << 2, 2 >>
    /\ self.reactant_conc = 1
    /\ self.product_conc = 1
    /\ self.coreactant_conc = Some(1)
    /\ self.coproduct_conc = Some(1)
    /\ self.kf = Some(1)
    /\ self.kb = Some(1)

(* C15 as stated: constructing the connection of Scenario B does not raise
   on the division by Keq - 1 of the initial guess, and the constructed
   connection has Keq = 1, equil_flux = 0 and time_constant = 0. *)
C15_ScenarioBCompletes ==
    ScenarioB =>
        /\ error # "ZeroDivisionError"
        /\ Constructed =>
               /\ self.Keq = Fraction(1, 1)
               /\ self.equil_flux = 0
               /\ self.time_constant = "0"

PositiveRateConstants == BothRateConstants /\ Value(self.kf) > 0 /\ Value(self.kb) > 0

(* C16 as stated: for non-negative concentrations and positive rate
   constants no logarithm of a non-positive argument and no division by a
   zero denominator is executed during Connection evaluation; neither a
   ZeroDivisionError nor a ValueError of math.log leaves the constructor. *)
C16_NoRawNumericError ==
    PositiveRateConstants => error \notin { "ZeroDivisionError", "ValueError" }

(***************************************************************************)
(* Properties of a repeated pooling_time_cycle call (RerunSpec).           *)
(***************************************************************************)
SecondRunDone == pc = "done" /\ first_run # None

(* C17: running pooling_time_cycle twice on the same connection list and
   species list yields identical matrices, the same cells defined with the
   same values, and the first run leaves the connections unchanged; the
   result depends neither on the order in which the set of broken species is
   iterated nor on anything the first run left behind. *)
C17_SecondRunIdentical ==
    SecondRunDone =>
        /\ pooling_times = Value(first_run).pooling_times
        /\ direct_connections_list = Value(first_run).direct_connections_list

(* a second run finished in which a call found two broken species in one
   pool group and cells off the diagonal are defined *)
C17_Witness ==
    /\ SecondRunDone
    /\ \E c \in DOMAIN calls :
         \E i, j \in calls[c].result.broken_pools :
             /\ i # j
             /\ j \in calls[c].result.forward_pass[i]
             /\ i \in calls[c].result.forward_pass[j]
    /\ \E i, j \in Species : i # j /\ pooling_times[i][j] # None

(***************************************************************************)
(* Properties of the library getters (LibrarySpec).                        *)
(***************************************************************************)
GetterProperty ==
    [ get_binding_energies |-> "binding_energies",
      get_surface_site_density |-> "surface_site_density",
      get_valence_electrons |-> "valence_electrons",
      get_electronegativity |-> "electronegativity",
      get_psi |-> "psi",
      get_beta |-> "beta",
      get_coordination_number |-> "coordination_number" ]

MatchField ==
    [ get_all_entries_on_metal |-> "metal", get_all_entries_on_facet |-> "facet" ]

(* the last call was a getter for label and found the entry's property None *)
PropertyIsNone(r) ==
    \E k \in DOMAIN library.entries :
        /\ library.entries[k].label = r.argument
        /\ library.entries[k].properties[GetterProperty[r.call]] = None

(* C18: the getters get_binding_energies, get_surface_site_density,
   get_valence_electrons, get_electronegativity, get_psi, get_beta and
   get_coordination_number never return None: they raise DatabaseError when
   the label is not in the library and when the entry exists but the
   property is None, and otherwise return the stored property;
   get_all_entries_on_metal and get_all_entries_on_facet raise DatabaseError
   instead of returning an empty list and otherwise return exactly the
   labels whose metal or facet matches, each once. *)
C18_GettersNeverReturnNone ==
    result # None =>
        LET r == Value(result)
        IN  /\ r.call \in DOMAIN GetterProperty =>
                /\ r.outcome \in { "returned", "DatabaseError" }
                /\ r.outcome = "returned" =>
                       /\ r.value # None
                       /\ \E k \in DOMAIN library.entries :
                             /\ library.entries[k].label = r.argument
                             /\ library.entries[k].properties[GetterProperty[r.call]]
                                    = r.value
                /\ ~ HasEntry(library.entries, r.argument) => r.outcome = "DatabaseError"
                /\ PropertyIsNone(r) => r.outcome = "DatabaseError"
            /\ r.call \in DOMAIN MatchField =>
                LET matching == { library.entries[k].label :
                                    k \in { n \in DOMAIN library.entries :
                                              library.entries[n][MatchField[r.call]]
                                                  = r.argument } }
                IN  /\ r.outcome \in { "returned", "DatabaseError" }
                    /\ r.outcome = "returned" =>
                           /\ r.value # << >>
                           /\ { r.value[n] : n \in DOMAIN r.value } = matching
                           /\ Len(r.value) = Cardinality(matching)
                    /\ r.outcome = "DatabaseError" => matching = {}

(* get_valence_electrons raised DatabaseError for a label whose entry is in
   a library of two entries, its valence_electrons being None *)
C18_Witness ==
    /\ result # None
    /\ Value(result).call = "get_valence_electrons"
    /\ Value(result).outcome = "DatabaseError"
    /\ PropertyIsNone(Value(result))
    /\ Len(library.entries) = 2

(***************************************************************************)
(* Properties of the purge and of the reachability passes (Spec).          *)
(***************************************************************************)
(* the species j with j in reachable(i) and i in reachable(j) *)
MutualSet(call, i) ==
    { j \in Species : j \in call.forward_pass[i] /\ i \in call.forward_pass[j] }

(* C19 as stated: the purge is species-local: for every species i that is
   not marked broken, the returned pool_groups[i] is exactly the set of the
   species j with j in reachable(i) and i in reachable(j), i itself
   included. *)
C19_PurgeSpeciesLocal ==
    \A c \in DOMAIN calls :
        \A i \in Species \ calls[c].result.broken_pools :
            calls[c].result.pool_groups[i] = MutualSet(calls[c].result, i)

(* C19 amended: the purge clears whole groups: a species whose mutual set
   holds no broken species gets exactly its mutual set, itself included,
   and a species whose mutual set holds a broken species gets the empty
   group, whether it is marked broken itself or not. *)
C19_PurgeWholeGroup ==
    \A c \in DOMAIN calls :
        \A i \in Species :
            calls[c].result.pool_groups[i] =
                IF MutualSet(calls[c].result, i) \cap calls[c].result.broken_pools = {}
                THEN MutualSet(calls[c].result, i)
                ELSE {}

(* a call in which a species that is not broken lost its group to a broken
   species of its mutual set, while another species kept its own *)
C19_Witness ==
    \E c \in DOMAIN calls :
        /\ \E i \in Species \ calls[c].result.broken_pools :
              /\ MutualSet(calls[c].result, i) \cap calls[c].result.broken_pools # {}
              /\ calls[c].result.pool_groups[i] = {}

(* the sequences of species of length 1 .. NumSpecies *)
SpeciesPaths == UNION { [ 1 .. n -> Species ] : n \in 1 .. NumSpecies }

(* the species a path along the successor relation leads to from i, i
   itself included: a path that visits no species twice has at most
   NumSpecies species *)
ReachableFrom(successors, i) ==
    { path[Len(path)] :
        path \in { p \in SpeciesPaths :
                     /\ p[1] = i
                     /\ \A n \in 1 .. (Len(p) - 1) : p[n + 1] \in successors[p[n]] } }

(* C20: after the len(core_species) rounds of in-place unioning,
   forward_pass[i] is exactly the reflexive-transitive closure of the
   fast-successor relation from i and strong_pass[i] exactly that of the
   strong-successor relation, for every species i and every edge set: no
   reachable species is missing and none is added that is not reachable. *)
C20_PassesAreClosures ==
    \A c \in DOMAIN calls :
        \A i \in Species :
            /\ calls[c].result.forward_pass[i]
                   = ReachableFrom(calls[c].result.fast_connections, i)
            /\ calls[c].result.strong_pass[i]
                   = ReachableFrom(calls[c].result.strong_connections, i)

(* a call in which species 0 reaches species 2 only through species 1, and
   not the other way round: the chain runs with the order of the sweep and
   needs a second round *)
C20_Witness ==
    \E c \in DOMAIN calls :
        /\ calls[c].result.fast_connections[0] = { 1 }
        /\ calls[c].result.fast_connections[1] = { 2 }
        /\ calls[c].result.fast_connections[2] = {}
        /\ calls[c].result.forward_pass[0] = { 0, 1, 2 }
        /\ calls[c].result.strong_pass[0] = { 0, 1, 2 }

(***************************************************************************)
(* Properties of the classification (Spec).                                *)
(***************************************************************************)
(* the connections of the list that lead from rct_idx to prd_idx *)
ConnectionsBetween(rct_idx, prd_idx) ==
    { d \in DOMAIN direct_connections_list :
        /\ direct_connections_list[d].reactant = rct_idx
        /\ direct_connections_list[d].product = prd_idx }

(* time constant non-null and strictly below theta *)
BelowThreshold(conn, theta) ==
    conn.time_constant # None /\ Value(conn.time_constant) < theta

(* the (2,2) exclusion of line 213 *)
Excluded22(conn) ==
    /\ conn.species_count = << 2, 2 >>
    /\ \/ Value(conn.coproduct_conc) < conn.product_conc
       \/ Value(conn.coreactant_conc) < conn.reactant_conc

(* the 10% test of lines 218 and 222 *)
SignificantFlux(conn) ==
    IF conn.species_count = << 2, 2 >>
    THEN 10 * Abs(conn.equil_flux) > conn.min_product_conc
    ELSE 10 * conn.min_reactant_conc > conn.min_product_conc

(* C21 as stated: a connection contributes the fast edge reactant->product
   iff its time constant is non-null and strictly less than theta; it
   contributes a strong edge only if it is fast and passes the 10% test of
   its class; every strong edge is a fast edge. *)
C21_Classification_Stated ==
    \A c \in DOMAIN calls :
        \A rct_idx, prd_idx \in Species :
            LET call == calls[c].result
            IN  /\ prd_idx \in call.fast_connections[rct_idx]
                      <=> \E d \in ConnectionsBetween(rct_idx, prd_idx) :
                              BelowThreshold(direct_connections_list[d],
                                             call.t_characteristic)
                /\ prd_idx \in call.strong_connections[rct_idx]
                      => \E d \in ConnectionsBetween(rct_idx, prd_idx) :
                              /\ BelowThreshold(direct_connections_list[d],
                                                call.t_characteristic)
                              /\ SignificantFlux(direct_connections_list[d])
                /\ call.strong_connections[rct_idx] \subseteq call.fast_connections[rct_idx]

(* C21 amended: a connection contributes the fast edge reactant->product iff
   its time constant is non-null and strictly less than theta and it is not
   a (2,2) connection with coproduct_conc < product_conc or coreactant_conc
   < reactant_conc; it contributes a strong edge iff it is fast and passes
   the 10% test of its class; every strong edge is a fast edge. *)
C21_Classification_Amended ==
    \A c \in DOMAIN calls :
        \A rct_idx, prd_idx \in Species :
            LET call == calls[c].result
            IN  /\ prd_idx \in call.fast_connections[rct_idx]
                      <=> \E d \in ConnectionsBetween(rct_idx, prd_idx) :
                              /\ BelowThreshold(direct_connections_list[d],
                                                call.t_characteristic)
                              /\ ~ Excluded22(direct_connections_list[d])
                /\ prd_idx \in call.strong_connections[rct_idx]
                      <=> \E d \in ConnectionsBetween(rct_idx, prd_idx) :
                              /\ BelowThreshold(direct_connections_list[d],
                                                call.t_characteristic)
                              /\ ~ Excluded22(direct_connections_list[d])
                              /\ SignificantFlux(direct_connections_list[d])
                /\ call.strong_connections[rct_idx] \subseteq call.fast_connections[rct_idx]

(* a call whose list holds an excluded (2,2) connection below theta, and
   in which some fast edge is strong and some fast edge is not *)
C21_Witness ==
    \E c \in DOMAIN calls :
        LET call == calls[c].result
        IN  /\ \E rct_idx \in Species : call.strong_connections[rct_idx] # {}
            /\ \E d \in DOMAIN direct_connections_list :
                  /\ Excluded22(direct_connections_list[d])
                  /\ BelowThreshold(direct_connections_list[d], call.t_characteristic)
            /\ \E rct_idx \in Species :
                  call.fast_connections[rct_idx] # call.strong_connections[rct_idx]

(***************************************************************************)
(* Properties of the retry (ConnectionSpec).                               *)
(***************************************************************************)
RetryClasses == { << 1, 1 >>, << 2, 1 >>, << 2, 2 >> }

(* the first solve's flux failed the verification check and the constructor
   has gone on from there *)
FirstCheckFailed ==
    /\ self.flux_from = "fsolve"
    /\ pc # "flux_K_check"
    /\ flux_K_check(self) = "False"

(* C22 as stated: when the verification check fails after the first solve,
   a net-forward connection of class (1,1), (2,1) or (2,2) gets exactly one
   retry with the reformulated equation before evaluation fails; no
   connection is solved more than twice. *)
C22_ExactlyOneRetry ==
    /\ self.solves <= 2
    /\ ( /\ pc = "raised"
         /\ self.solves >= 1
         /\ self.species_count \in RetryClasses
         /\ NetForward(self)
         /\ flux_K_check(self) = "False" ) => self.solves = 2

(* the condition of line 554 on the grid *)
RetryCondition21 ==
    /\ self.species_count = << 2, 1 >>
    /\ self.delta_reactant_conc # 0
    /\ NetForward(self)
    /\ self.Keq.den = 0

(* C23 as stated: a (2,1) connection whose first solve fails the
   verification check and which meets the retry condition ends with a flux
   that passes the check or with 'bad equil'; the retry path raises no
   other kind of error. *)
C23_RetryRaisesOnlyBadEquil ==
    (RetryCondition21 /\ FirstCheckFailed /\ pc = "raised") => error = "bad equil"

(***************************************************************************)
(* Properties of the deduplication step and of the identity hash           *)
(* (DedupSpec).                                                            *)
(***************************************************************************)
(* C24 as stated: after the deduplication step no connection remaining in
   possible_connections has the same identity hash as any direct
   connection, for every content and ordering of the two lists, several
   possible connections with the same hash standing next to each other
   included. *)
C24_NoCoveredConnectionLeft ==
    pc = "deduplicated" =>
        \A k \in DOMAIN possible_connections :
            \A d \in DOMAIN direct_connections_list :
                ConnectionHash(possible_connections[k].connection)
                    # ConnectionHash(direct_connections_list[d])

(* the Connection objects of the two lists *)
ListedConnections ==
    { direct_connections_list[d] : d \in DOMAIN direct_connections_list }
    \cup { possible_connections[k].connection : k \in DOMAIN possible_connections }

(* the index arguments a connection was built with *)
ShapeOf(conn) ==
    [ reactant_index |-> conn.reactant, coreactant_index |-> conn.coreactant,
      product_index |-> conn.product, coproduct_index |-> conn.coproduct ]

(* C27: a connection with reactant-side pair (r, cr) and product-side pair
   (p, cp) and the connection built in the opposite direction have equal
   hash, so is_same_connection is True for them in both argument orders;
   is_same_connection is reflexive and symmetric. *)
C27_HashDirectionIndependent ==
    \A a \in ListedConnections :
        /\ ConnectionHash(ReverseConnection(ShapeOf(a))) = ConnectionHash(a)
        /\ is_same_connection(a, ReverseConnection(ShapeOf(a)))
        /\ is_same_connection(ReverseConnection(ShapeOf(a)), a)
        /\ is_same_connection(a, a)
        /\ \A b \in ListedConnections :
               is_same_connection(a, b) <=> is_same_connection(b, a)

(* a (2,1) direct connection whose (1,2) reverse stood in
   possible_connections and was removed as the same connection, another
   possible connection with a different hash being kept *)
C27_Witness ==
    /\ pc = "deduplicated"
    /\ \E d \in DOMAIN direct_connections_list :
          /\ direct_connections_list[d].species_count = << 2, 1 >>
          /\ removed_connections # {}
          /\ \A k \in DOMAIN possible_connections :
                ~ is_same_connection(direct_connections_list[d],
                                     possible_connections[k].connection)
    /\ Len(direct_connections_list) = 1
    /\ Len(possible_connections) = 1

(***************************************************************************)
(* Properties of the pooling-time mutators (PoolingTimeSpec).              *)
(***************************************************************************)
(* the Connection as call number c left it *)
AfterCall(c) == IF c = Len(calls) THEN self ELSE calls[c + 1].before

OnlyRatchetCalls == \A c \in DOMAIN calls : calls[c].method = "ratchet_pooling_time"

(* C25: after any sequence of ratchet_pooling_time calls pooling_time is
   the minimum of all values passed so far, None before the first call; a
   call with a value greater than or equal to the current pooling_time
   leaves it unchanged; no other field of the Connection is modified. *)
C25_RatchetKeepsMinimum ==
    OnlyRatchetCalls =>
        /\ calls = << >> => self.pooling_time = None
        /\ calls # << >> =>
               /\ self.pooling_time # None
               /\ \E c \in DOMAIN calls : calls[c].new_time = Value(self.pooling_time)
               /\ \A c \in DOMAIN calls : Value(self.pooling_time) <= calls[c].new_time
        /\ \A c \in DOMAIN calls :
               /\ ( /\ calls[c].before.pooling_time # None
                    /\ calls[c].new_time >= Value(calls[c].before.pooling_time) )
                      => AfterCall(c) = calls[c].before
               /\ [ AfterCall(c) EXCEPT !.pooling_time = None ]
                      = [ calls[c].before EXCEPT !.pooling_time = None ]

(* three ratchet calls: the second lowered the value, the third was higher
   and left it *)
C25_Witness ==
    /\ OnlyRatchetCalls
    /\ Len(calls) = 3
    /\ calls[2].new_time < calls[1].new_time
    /\ calls[3].new_time > calls[2].new_time
    /\ self.pooling_time = Some(calls[2].new_time)

(* C26 as stated: once set, pooling_time never increases: over any sequence
   of calls of ratchet_pooling_time and set_pooling_time each new
   pooling_time is less than or equal to the previous one. *)
C26_NeverIncreases ==
    \A c \in DOMAIN calls :
        calls[c].before.pooling_time # None =>
            Value(AfterCall(c).pooling_time) <= Value(calls[c].before.pooling_time)

(* C26 amended: once set, pooling_time never increases over a call of
   ratchet_pooling_time; a call of set_pooling_time leaves pooling_time
   equal to its argument, higher than before or not. *)
C26_OnlyRatchetNeverIncreases ==
    \A c \in DOMAIN calls :
        /\ ( /\ calls[c].method = "ratchet_pooling_time"
             /\ calls[c].before.pooling_time # None )
               => Value(AfterCall(c).pooling_time)
                      <= Value(calls[c].before.pooling_time)
        /\ calls[c].method = "set_pooling_time"
               => AfterCall(c).pooling_time = Some(calls[c].new_time)

(* a ratchet call set the value, set_pooling_time then raised it, and a
   ratchet call lowered it again *)
C26_Witness ==
    /\ Len(calls) = 3
    /\ calls[1].method = "ratchet_pooling_time"
    /\ calls[2].method = "set_pooling_time"
    /\ calls[3].method = "ratchet_pooling_time"
    /\ calls[2].new_time > calls[1].new_time
    /\ calls[3].new_time < calls[2].new_time
    /\ self.pooling_time = Some(calls[3].new_time)

(***************************************************************************)
(* Frame of the scan (Spec).                                               *)
(***************************************************************************)
(* what equilibrium_pooling returns for the connection list as it stands
   and the threshold theta, written out from the list alone *)
FreshFast(theta) ==
    [ rct_idx \in Species |->
        { prd_idx \in Species :
            \E d \in ConnectionsBetween(rct_idx, prd_idx) :
                /\ BelowThreshold(direct_connections_list[d], theta)
                /\ ~ Excluded22(direct_connections_list[d]) } ]

FreshStrong(theta) ==
    [ rct_idx \in Species |->
        { prd_idx \in Species :
            \E d \in ConnectionsBetween(rct_idx, prd_idx) :
                /\ BelowThreshold(direct_connections_list[d], theta)
                /\ ~ Excluded22(direct_connections_list[d])
                /\ SignificantFlux(direct_connections_list[d]) } ]

(* the whole result: reachability as the end points of paths, broken
   species by the two rules, and a group emptied when it holds a broken
   species *)
FreshResult(theta) ==
    LET fast == FreshFast(theta)
        strong == FreshStrong(theta)
        forward == [ i \in Species |-> ReachableFrom(fast, i) ]
        strongly == [ i \in Species |-> ReachableFrom(strong, i) ]
        oneway == { pair \in Species \X Species :
                      /\ pair[2] \in forward[pair[1]]
                      /\ pair[1] \notin forward[pair[2]] }
        broken == { pair[1] : pair \in oneway }
                  \cup { pair[2] : pair \in { q \in oneway : q[2] \in strongly[q[1]] } }
        mutual == [ i \in Species |-> { j \in forward[i] : i \in forward[j] } ]
    IN  [ t_characteristic |-> theta,
          fast_connections |-> fast,
          strong_connections |-> strong,
          forward_pass |-> forward,
          strong_pass |-> strongly,
          broken_pools |-> broken,
          pool_groups |-> [ i \in Species |->
                              IF mutual[i] \cap broken = {} THEN mutual[i] ELSE {} ] ]

FromScratch(call, theta) == call = FreshResult(theta)

(* C28: each call of equilibrium_pooling computes its classification, its
   reachability sets and its pool groups from scratch: the result of every
   call of the scan is the one determined by the connection list, the
   species and the threshold of that call alone, whatever calls came before;
   and while the scan runs, the connections and the concentrations of the
   species do not change: of the objects of the scan only the pooling-time
   matrix changes between threshold iterations. *)
C28_CallsFromScratch ==
    /\ [](\A c \in DOMAIN calls :
            FromScratch(calls[c].result, Pow10(calls[c].log10_time + Decimals)))
    /\ [][pc = "scan" =>
            /\ direct_connections_list' = direct_connections_list
            /\ core_concentrations' = core_concentrations
            /\ log10_minimum' = log10_minimum
            /\ log10_maximum' = log10_maximum]_vars

(* a finished scan of three calls or more on the same list, two of them
   with different pool groups and different sets of broken species *)
C28_Witness ==
    /\ pc = "done"
    /\ Len(calls) >= 3
    /\ \E c, e \in DOMAIN calls :
          /\ calls[c].result.pool_groups # calls[e].result.pool_groups
          /\ calls[c].result.broken_pools # calls[e].result.broken_pools
          /\ calls[c].result.broken_pools # {}
          /\ calls[e].result.broken_pools # {}

(***************************************************************************)
(* find_binding_energies.                                                  *)
(***************************************************************************)
FoundBindingEnergies ==
    /\ result # None
    /\ Value(result).call = "find_binding_energies"

(* the entries whose metal is the given one, by their place in the dict *)
EntriesOnMetal(metal) ==
    { k \in DOMAIN library.entries : library.entries[k].metal = metal }

FirstOnMetal(metal) ==
    CHOOSE k \in EntriesOnMetal(metal) : \A other \in EntriesOnMetal(metal) : k <= other

(* the exact label is in the library and has binding energies *)
ExactBindingEnergies(label) ==
    \E k \in DOMAIN library.entries :
        /\ library.entries[k].label = label
        /\ library.entries[k].properties["binding_energies"] # None

(* the text before the first run of digits, the whole text when it has none *)
TextBeforeDigits(text) ==
    IF \E k \in DOMAIN Spelling[text] : Spelling[text][k] \in DigitCharacters
    THEN CHOOSE generic \in DOMAIN Spelling :
            /\ Len(Spelling[generic]) < Len(Spelling[text])
            /\ \A k \in DOMAIN Spelling[generic] :
                  /\ Spelling[generic][k] = Spelling[text][k]
                  /\ Spelling[generic][k] \notin DigitCharacters
            /\ Spelling[text][Len(Spelling[generic]) + 1] \in DigitCharacters
    ELSE text

(* C29: find_binding_energies(metal), for None or a string, returns binding
   energies that are not None or raises DatabaseError.  None raises.  A label
   with a facet number whose exact entry has binding energies gets them.
   Otherwise the search goes on with the text before the first run of digits
   (the whole text when there is none): the binding energies of the first
   entry of the library whose metal equals it are returned, and when there is
   no such entry, or that first entry has none, DatabaseError is raised. *)
C29_FindBindingEnergies ==
    FoundBindingEnergies =>
        LET call == Value(result)
            entries == library.entries
        IN  /\ call.outcome \in { "returned", "DatabaseError" }
            /\ call.outcome = "returned" => call.value # None
            /\ call.argument = None => call.outcome = "DatabaseError"
            /\ call.argument # None =>
                 LET text == Value(call.argument)
                     generic == TextBeforeDigits(text)
                 IN  IF generic # text /\ ExactBindingEnergies(text)
                     THEN /\ call.outcome = "returned"
                          /\ \E k \in DOMAIN entries :
                                /\ entries[k].label = text
                                /\ call.value = entries[k].properties["binding_energies"]
                     ELSE IF EntriesOnMetal(generic) = {}
                     THEN call.outcome = "DatabaseError"
                     ELSE IF entries[FirstOnMetal(generic)].properties["binding_energies"] = None
                     THEN call.outcome = "DatabaseError"
                     ELSE /\ call.outcome = "returned"
                          /\ call.value =
                               entries[FirstOnMetal(generic)].properties["binding_energies"]

(* the exact label is in the library without binding energies, the search
   fell back to the metal, found two entries on it and returned the binding
   energies of the first, while the other entry, the queried one, has none *)
C29_Witness ==
    /\ FoundBindingEnergies
    /\ Value(result).argument # None
    /\ Value(result).outcome = "returned"
    /\ LET text == Value(Value(result).argument)
       IN  /\ TextBeforeDigits(text) # text
           /\ HasEntry(library.entries, text)
           /\ ~ ExactBindingEnergies(text)
           /\ \E k, other \in EntriesOnMetal(TextBeforeDigits(text)) :
                 /\ k < other
                 /\ library.entries[other].label = text

(***************************************************************************)
(* The pool groups a call returns (PoolingSpec).                           *)
(***************************************************************************)
(* the groups of a call that are not empty *)
SurvivingPools(call) ==
    { call.pool_groups[i] : i \in Species } \ { {} }

(* C30: in the result of equilibrium_pooling the pool groups that are not
   empty form a partition closed under fast edges: every group is empty or
   holds its own species; a member j of pool_groups[i] has the same group as
   i; and a group that is not empty is the whole set of the species reachable
   from i over fast connections, so that no fast connection, and no path of
   them, leads from a member of a surviving pool to a species outside it. *)
C30_PoolsArePartition ==
    \A c \in DOMAIN calls :
        LET call == calls[c].result
        IN  /\ \A i \in Species :
                  /\ call.pool_groups[i] = {} \/ i \in call.pool_groups[i]
                  /\ \A j \in call.pool_groups[i] :
                        call.pool_groups[j] = call.pool_groups[i]
                  /\ call.pool_groups[i] # {} =>
                        call.pool_groups[i] = ReachableFrom(call.fast_connections, i)
            /\ \A P, Q \in SurvivingPools(call) : P = Q \/ P \cap Q = {}
            /\ \A P \in SurvivingPools(call) :
                  \A j \in P :
                      /\ call.fast_connections[j] \subseteq P
                      /\ ReachableFrom(call.fast_connections, j) \subseteq P

(* a call that returned a pool of two species joined by fast connections
   both ways, while a third species with a fast connection into that pool
   and none back lost its group *)
C30_Witness ==
    \E c \in DOMAIN calls :
        \E i, j, k \in Species :
            /\ i # j /\ k \notin { i, j }
            /\ calls[c].result.pool_groups[i] = { i, j }
            /\ calls[c].result.pool_groups[j] = { i, j }
            /\ j \in calls[c].result.fast_connections[i]
            /\ i \in calls[c].result.fast_connections[j]
            /\ i \in calls[c].result.fast_connections[k]
            /\ calls[c].result.pool_groups[k] = {}

====
